---- MODULE Spec2Model ----
(***************************************************************************)
(* A model of the read-only ext2 driver of libblockfs                      *)
(* (src/drivers/libblockfs/src/ext2fs.cpp): the inode cache, the inode     *)
(* initializer, the three page-in handlers of an inode, the block mapper   *)
(* with read fusion, and the directory reader.                             *)
(*                                                                         *)
(* Scheduling: one dispatcher, cooperative coroutines.  An action of the   *)
(* model is the code a coroutine runs between two suspension points        *)
(* (COFIBER_AWAIT); assert() is modelled as compiled in, so a failed       *)
(* assertion and abort() both end the whole process (aborted # "").        *)
(*                                                                         *)
(* Memory contents are kept per 512-byte cell: a cell of a managed memory  *)
(* object holds the LBA of the sector that readSectors() copied into it;   *)
(* a cell never written reads as zero.  The disk is the immutable image    *)
(* img, chosen by Init; its bytes are given by the Disk... operators.      *)
(***************************************************************************)
EXTENDS Integers, Sequences, FiniteSets, TLC

(***************************************************************************)
(* Bounds of the model.                                                    *)
(***************************************************************************)
\* Inode objects the cache may create in one run
MaxRecords == 2
\* handles a caller may hold on one record at a time
MaxUsers == 2
\* client page faults in one run
MaxFaults == 2
\* pages one manage event of the kernel may cover
MaxEventPages == 2
\* manage events the kernel raises for one memory object in one run
MaxLoads == 2
\* findEntry calls in one run
MaxFinds == 2
\* OpenFile cursors in one run
MaxFiles == 1
\* readEntries calls in one run
MaxReads == 6

(***************************************************************************)
(* Program constants.                                                      *)
(***************************************************************************)
pageShift == 12
pageSize == 4096
SectorSize == 512
EXT2_ROOT_INO == 2
EXT2_S_IFMT == 15 * 4096
EXT2_S_IFREG == 8 * 4096
EXT2_S_IFLNK == 10 * 4096
EXT2_S_IFDIR == 4 * 4096
EXT2_FT_REG_FILE == 1
EXT2_FT_DIR == 1 + 1
EXT2_FT_SYMLINK == 7
DiskInodeBytes == 128

kTypeNone == "none"
kTypeRegular == "regular"
kTypeDirectory == "directory"
kTypeSymlink == "symlink"

RECURSIVE Pow2(_)
Pow2(n) == IF n <= 0 THEN 1 ELSE 2 * Pow2(n - 1)

\* x << s and x >> s on unsigned values
Shl(x, s) == x * Pow2(s)
Shr(x, s) == x \div Pow2(s)

Min(a, b) == IF a < b THEN a ELSE b

\* (x + 0xFFF) & ~0xFFF
PageRoundUp(x) == ((x + 4095) \div 4096) * 4096

RecIds == 1 .. MaxRecords
FindIds == 1 .. MaxFinds
FileIds == 1 .. MaxFiles
MemKinds == {"data", "ord1", "ord2"}
NoEvent == [offset |-> 0, length |-> 0]

(***************************************************************************)
(* The disk image.  Tables of block pointers and directory blocks are      *)
(* written as short lists; everything the lists do not name is zero.       *)
(***************************************************************************)

\* entry i of a table written as extents <<[n, start, step], ...>>
RECURSIVE ExtentEntry(_, _)
ExtentEntry(exts, i) ==
    IF exts = <<>> THEN 0
    ELSE IF i < Head(exts).n THEN Head(exts).start + Head(exts).step * i
    ELSE ExtentEntry(Tail(exts), i - Head(exts).n)

Run(n, start) == [n |-> n, start |-> start, step |-> 1]
Hole(n) == [n |-> n, start |-> 0, step |-> 0]

DirectOf(exts) == [i \in 0 .. 11 |-> ExtentEntry(exts, i)]

ZeroDirEntry ==
    [inode |-> 0, recordLength |-> 0, nameLength |-> 0, fileType |-> 0, name |-> <<>>]

DirRec(ino, reclen, ft, name) ==
    [inode |-> ino, recordLength |-> reclen, nameLength |-> Len(name),
     fileType |-> ft, name |-> name]

ZeroInode ==
    [mode |-> 0, size |-> 0, linksCount |-> 0, direct |-> DirectOf(<<>>),
     singleIndirect |-> 0, doubleIndirect |-> 0, tripleIndirect |-> 0]

DiskInodeOf(mode, size, direct, single, double, triple) ==
    [mode |-> mode, size |-> size, linksCount |-> 1, direct |-> DirectOf(direct),
     singleIndirect |-> single, doubleIndirect |-> double, tripleIndirect |-> triple]

NameDot == <<46>>
NameDotDot == <<46, 46>>
NameHello == <<104, 101, 108, 108, 111>>

SuperblockOf(logBlockSize) ==
    [magic |-> 61267, logBlockSize |-> logBlockSize, inodeSize |-> DiskInodeBytes,
     blocksCount |-> 8192, blocksPerGroup |-> 8192, inodesPerGroup |-> 16]

\* the root directory of scenario S1: ".", "..", "hello" -> 12
RootDirInode == DiskInodeOf(EXT2_S_IFDIR + 493, 1024, <<Run(1, 50)>>, 0, 0, 0)
RootDirBlock ==
    <<DirRec(2, 12, EXT2_FT_DIR, NameDot), DirRec(2, 12, EXT2_FT_DIR, NameDotDot),
      DirRec(12, 1000, EXT2_FT_REG_FILE, NameHello)>>

\* scenario S2: block size 1024, a file of 5000 bytes in blocks 100..104
ImageSmallFile ==
    [sb |-> SuperblockOf(0), bgdt |-> <<5>>,
     ino |-> (2 :> RootDirInode) @@
             (12 :> DiskInodeOf(EXT2_S_IFREG + 420, 5000, <<Run(5, 100)>>, 0, 0, 0)),
     tables |-> <<>>,
     dirs |-> (50 :> RootDirBlock),
     zeroFrom |-> <<>>]

\* block size 1024, a file of 272 blocks less one sector: 12 direct blocks in
\* two runs, a single-indirect table in two runs, one double-indirect leaf
ImageIndirectFile ==
    [sb |-> SuperblockOf(0), bgdt |-> <<5>>,
     ino |-> (2 :> RootDirInode) @@
             (12 :> DiskInodeOf(EXT2_S_IFREG + 420, 272 * 1024 - 512,
                                <<Run(8, 100), Run(4, 120)>>, 300, 301, 0)),
     tables |-> (300 :> <<Run(2, 400), Run(254, 600)>>) @@
                (301 :> <<Run(1, 302)>>) @@
                (302 :> <<Run(2, 900), Run(2, 950)>>),
     dirs |-> (50 :> RootDirBlock),
     zeroFrom |-> (951 :> 512)]

\* block size 4096, a file of 14 blocks less 1000 bytes
ImageBigBlocks ==
    [sb |-> SuperblockOf(2), bgdt |-> <<5>>,
     ino |-> (2 :> DiskInodeOf(EXT2_S_IFDIR + 493, 4096, <<Run(1, 50)>>, 0, 0, 0)) @@
             (12 :> DiskInodeOf(EXT2_S_IFREG + 420, 14 * 4096 - 1000,
                                <<Run(12, 100)>>, 300, 0, 0)),
     tables |-> (300 :> <<Run(1, 400), Run(1, 500)>>),
     dirs |-> (50 :> <<DirRec(2, 12, EXT2_FT_DIR, NameDot),
                       DirRec(2, 4084, EXT2_FT_DIR, NameDotDot)>>),
     zeroFrom |-> (500 :> 3096)]

ImageNames == {"smallfile", "indirect", "bigblocks"}

\* a superblock whose last block group is a partial one
SuperblockPartialGroup ==
    [SuperblockOf(0) EXCEPT !.blocksCount = 12000]

\* a file of 12 blocks with unmapped entries: one inside a run of consecutive
\* blocks (logical block 2) and one at the start of a request (logical block 8)
ImageHoles ==
    [sb |-> SuperblockPartialGroup, bgdt |-> <<5>>,
     ino |-> (2 :> RootDirInode) @@
             (12 :> DiskInodeOf(EXT2_S_IFREG + 420, 12 * 1024,
                                <<Run(2, 100), Hole(1), Run(5, 103), Hole(1), Run(3, 110)>>,
                                0, 0, 0)),
     tables |-> <<>>,
     dirs |-> (50 :> RootDirBlock),
     zeroFrom |-> <<>>]

\* inode 12 is a FIFO
ImageFifo ==
    [sb |-> SuperblockOf(0), bgdt |-> <<5>>,
     ino |-> (2 :> RootDirInode) @@
             (12 :> DiskInodeOf(4096 + 420, 0, <<>>, 0, 0, 0)),
     tables |-> <<>>,
     dirs |-> (50 :> RootDirBlock),
     zeroFrom |-> <<>>]

\* block size 1024, a file that is four blocks longer than the direct,
\* single-indirect and double-indirect ranges together (12 + 256 + 65536
\* blocks); the last double-indirect leaf maps its last four blocks
ImageBeyondDouble ==
    [sb |-> SuperblockOf(0), bgdt |-> <<5>>,
     ino |-> (2 :> RootDirInode) @@
             (12 :> DiskInodeOf(EXT2_S_IFREG + 420, (12 + 256 + 65536 + 4) * 1024,
                                <<Run(12, 100)>>, 0, 301, 303)),
     tables |-> (301 :> <<Hole(255), Run(1, 302)>>) @@
                (302 :> <<Hole(252), Run(4, 2000)>>) @@
                (303 :> <<Run(1, 304)>>),
     dirs |-> (50 :> RootDirBlock),
     zeroFrom |-> <<>>]

\* block size 8192, two pages to the block: a file of three blocks less 100
\* bytes
ImageHugeBlocks ==
    [sb |-> SuperblockOf(3), bgdt |-> <<5>>,
     ino |-> (2 :> DiskInodeOf(EXT2_S_IFDIR + 493, 8192, <<Run(1, 50)>>, 0, 0, 0)) @@
             (12 :> DiskInodeOf(EXT2_S_IFREG + 420, 3 * 8192 - 100,
                                <<Run(3, 100)>>, 0, 0, 0)),
     tables |-> <<>>,
     dirs |-> (50 :> <<DirRec(2, 12, EXT2_FT_DIR, NameDot),
                       DirRec(2, 8180, EXT2_FT_DIR, NameDotDot)>>),
     zeroFrom |-> (102 :> 8092)]

LimitImageNames == {"holes", "fifo", "beyond", "hugeblocks"}

\* scenario S3: block size 4096, a file of 12 + 1024 blocks; the direct
\* blocks end at 199 and the single-indirect table holds 200 .. 1223
FusionTableBlocks == 1024
ImageFusion ==
    [sb |-> SuperblockOf(2), bgdt |-> <<5>>,
     ino |-> (2 :> DiskInodeOf(EXT2_S_IFDIR + 493, 4096, <<Run(1, 50)>>, 0, 0, 0)) @@
             (12 :> DiskInodeOf(EXT2_S_IFREG + 420, (12 + FusionTableBlocks) * 4096,
                                <<Run(12, 188)>>, 150, 0, 0)),
     tables |-> (150 :> <<Run(FusionTableBlocks, 200)>>),
     dirs |-> (50 :> <<DirRec(2, 12, EXT2_FT_DIR, NameDot),
                       DirRec(2, 4084, EXT2_FT_DIR, NameDotDot)>>),
     zeroFrom |-> <<>>]

\* names: bytes, 0 is NUL
NameA == <<97>>
NameB == <<98>>
NameANulB == <<97, 0, 98>>
NameANulC == <<97, 0, 99>>

DirImage(size, direct, dirs) ==
    [sb |-> SuperblockOf(0), bgdt |-> <<5>>,
     ino |-> (2 :> DiskInodeOf(EXT2_S_IFDIR + 493, size, direct, 0, 0, 0)),
     tables |-> <<>>, dirs |-> dirs, zeroFrom |-> <<>>]

\* scenario S4: one block, record lengths 12, 12, 16, 984
ImageDirFour ==
    DirImage(1024, <<Run(1, 50)>>,
        50 :> <<DirRec(2, 12, EXT2_FT_DIR, NameDot),
                DirRec(2, 12, EXT2_FT_DIR, NameDotDot),
                DirRec(12, 16, EXT2_FT_REG_FILE, NameHello),
                DirRec(13, 984, EXT2_FT_SYMLINK, NameA)>>)

\* names with a NUL byte inside, and a file type the driver does not know
ImageDirNul ==
    DirImage(1024, <<Run(1, 50)>>,
        50 :> <<DirRec(2, 12, EXT2_FT_DIR, NameDot),
                DirRec(2, 12, EXT2_FT_DIR, NameDotDot),
                DirRec(20, 12, EXT2_FT_REG_FILE, NameANulB),
                DirRec(21, 12, 5, NameANulC),
                DirRec(22, 976, 5, NameB)>>)

\* two blocks that are not neighbours on the disk; a name that occurs twice
ImageDirTwoBlocks ==
    DirImage(2048, <<Run(1, 50), Run(1, 60)>>,
        (50 :> <<DirRec(2, 12, EXT2_FT_DIR, NameDot),
                 DirRec(2, 12, EXT2_FT_DIR, NameDotDot),
                 DirRec(12, 1000, EXT2_FT_REG_FILE, NameHello)>>) @@
        (60 :> <<DirRec(14, 16, EXT2_FT_DIR, NameHello),
                 DirRec(15, 1008, EXT2_FT_DIR, NameA)>>))

\* scenario S6: a directory of size 0
ImageDirEmpty == DirImage(0, <<>>, <<>>)

\* one block whose record lengths 12, 12, 1004 step past the file size 1024
ImageDirOvershoot ==
    DirImage(1024, <<Run(1, 50)>>,
             (50 :> <<DirRec(2, 12, EXT2_FT_DIR, NameDot),
                      DirRec(2, 12, EXT2_FT_DIR, NameDotDot),
                      DirRec(12, 1004, EXT2_FT_REG_FILE, NameHello)>>))

\* one block that holds two records and then zero bytes: the record at
\* offset 24 has recordLength 0
ImageDirZeroLength ==
    DirImage(1024, <<Run(1, 50)>>,
             (50 :> <<DirRec(2, 12, EXT2_FT_DIR, NameDot),
                      DirRec(2, 12, EXT2_FT_DIR, NameDotDot)>>))

\* one block whose third record is an unused slot: its inode field is 0 and
\* the name of the entry that was deleted is still in it
ImageDirDeleted ==
    DirImage(1024, <<Run(1, 50)>>,
             (50 :> <<DirRec(2, 12, EXT2_FT_DIR, NameDot),
                      DirRec(2, 12, EXT2_FT_DIR, NameDotDot),
                      DirRec(0, 16, EXT2_FT_REG_FILE, NameHello),
                      DirRec(13, 984, EXT2_FT_SYMLINK, NameA)>>))

DirImageNames == {"dirfour", "dirnul", "dirtwo", "dirempty", "dirover"}

SearchNames == {NameHello, NameA, NameANulC}

ImageOf(name) ==
    CASE name = "smallfile" -> ImageSmallFile
      [] name = "indirect" -> ImageIndirectFile
      [] name = "dirfour" -> ImageDirFour
      [] name = "dirnul" -> ImageDirNul
      [] name = "dirtwo" -> ImageDirTwoBlocks
      [] name = "dirempty" -> ImageDirEmpty
      [] name = "dirover" -> ImageDirOvershoot
      [] name = "dirzero" -> ImageDirZeroLength
      [] name = "dirdeleted" -> ImageDirDeleted
      [] name = "fusion" -> ImageFusion
      [] name = "holes" -> ImageHoles
      [] name = "fifo" -> ImageFifo
      [] name = "beyond" -> ImageBeyondDouble
      [] name = "hugeblocks" -> ImageHugeBlocks
      [] OTHER -> ImageBigBlocks

InodeNums == {EXT2_ROOT_INO, 12}

VARIABLES
    img,           \* name of the disk image the device holds
    fs,            \* FileSystem: the geometry derived by init()
    activeInodes,  \* FileSystem::activeInodes: inode number -> weak_ptr<Inode>
    inodes,        \* the Inode objects made by accessInode, by record id
    users,         \* shared_ptr<Inode> handles held by callers, per record
    initiate,      \* the initiateInode coroutine of each record
    mem,           \* the three managed memory objects of each record
    manageQ,       \* manage events delivered on each backing handle, not yet accepted
    handler,       \* the manageFileData / manageIndirect coroutine of each object
    faults,        \* ranges of frontal file memory that clients have touched
    delivered,     \* history: manage events delivered on each backing handle
    accepted,      \* history: manage events accepted by each handler
    completed,     \* history: helCompleteLoad calls of each handler
    finds,         \* the Inode::findEntry coroutines started so far
    files,         \* the OpenFile cursors, with the readEntries call in flight
    aborted        \* "" while the process runs, else why it ended

vars == <<img, fs, activeInodes, inodes, users, initiate, mem, manageQ, handler,
          faults, delivered, accepted, completed, finds, files, aborted>>

Img == ImageOf(img)

(***************************************************************************)
(* The block device: bytes of the image, read by sector.                   *)
(***************************************************************************)

\* where the image keeps inode n: <<sector, byte offset in the sector>>
ImageInodeLoc(n) ==
    LET sb == Img.sb
        group == (n - 1) \div sb.inodesPerGroup
        index == (n - 1) % sb.inodesPerGroup
        byte == Img.bgdt[group + 1] * Shl(1024, sb.logBlockSize) + index * sb.inodeSize
    IN <<byte \div SectorSize, byte % SectorSize>>

\* the DiskInode found at a byte offset of a sector
DiskInodeAt(sector, off) ==
    LET here == {n \in DOMAIN Img.ino : ImageInodeLoc(n) = <<sector, off>>}
    IN IF here = {} THEN ZeroInode ELSE Img.ino[CHOOSE n \in here : TRUE]

\* the uint32 at index i of disk block b
DiskBlockU32(b, i) ==
    IF b \in DOMAIN Img.tables THEN ExtentEntry(Img.tables[b], i) ELSE 0

\* the uint32 at index i (0..127) of the sector at lba
DiskU32(lba, i) ==
    LET spb == Shl(1024, Img.sb.logBlockSize) \div SectorSize
    IN DiskBlockU32(lba \div spb, (lba % spb) * (SectorSize \div 4) + i)

\* the DiskDirEntry that starts at byte o of disk block b
RECURSIVE DirEntryIn(_, _)
DirEntryIn(recs, o) ==
    IF recs = <<>> \/ o < 0 THEN ZeroDirEntry
    ELSE IF o = 0 THEN Head(recs)
    ELSE IF Head(recs).recordLength = 0 THEN ZeroDirEntry
    ELSE DirEntryIn(Tail(recs), o - Head(recs).recordLength)

DiskDirEntryAt(b, o) ==
    IF b \in DOMAIN Img.dirs THEN DirEntryIn(Img.dirs[b], o) ELSE ZeroDirEntry

\* whether byte o of disk block b is zero on the disk
DiskByteIsZero(b, o) ==
    b \in DOMAIN Img.zeroFrom /\ o >= Img.zeroFrom[b]

(***************************************************************************)
(* State after construction.                                               *)
(***************************************************************************)

NoGeometry ==
    [ready |-> FALSE, inodeSize |-> 0, blockShift |-> 0, blockSize |-> 0,
     blockPagesShift |-> 0, sectorsPerBlock |-> 0, numBlockGroups |-> 0,
     inodesPerGroup |-> 0]

NoFileData ==
    [direct |-> DirectOf(<<>>), singleIndirect |-> 0, doubleIndirect |-> 0,
     tripleIndirect |-> 0]

\* Inode::Inode; number = 0 marks a record id not yet allocated
NoInode ==
    [number |-> 0, isReady |-> FALSE, readyJump |-> FALSE, fileType |-> kTypeNone,
     fileSize |-> 0, fileData |-> NoFileData, mode |-> 0, numLinks |-> 0]

NoMemory == [created |-> FALSE, size |-> 0, pages |-> <<>>, cells |-> <<>>]

NoHandler ==
    [pc |-> "none", ev |-> NoEvent, offset |-> 0, numBlocks |-> 0, progress |-> 0,
     lockKind |-> "", lockOff |-> 0, lockLen |-> 0, index |-> 0, block |-> 0,
     count |-> 0]

NoInitiate == [pc |-> "none", sector |-> 0, offset |-> 0]

NoResult == [kind |-> "none", inode |-> 0, fileType |-> kTypeNone, name |-> <<>>]

\* a findEntry coroutine: pc = "none" marks a call not yet made
NoFind == [pc |-> "none", r |-> 0, name |-> <<>>, result |-> NoResult]

\* an OpenFile: r = 0 marks a cursor not yet constructed; log keeps, for every
\* readEntries call that returned, the offset at its entry, what it returned
\* and the offset it left
NoFile == [r |-> 0, offset |-> 0, pc |-> "idle", at |-> 0, log |-> <<>>]

InitWith(names) ==
    /\ img \in names
    /\ fs = NoGeometry
    /\ activeInodes = [n \in InodeNums |-> 0]
    /\ inodes = [r \in RecIds |-> NoInode]
    /\ users = [r \in RecIds |-> 0]
    /\ initiate = [r \in RecIds |-> NoInitiate]
    /\ mem = [r \in RecIds |-> [k \in MemKinds |-> NoMemory]]
    /\ manageQ = [r \in RecIds |-> [k \in MemKinds |-> <<>>]]
    /\ handler = [r \in RecIds |-> [k \in MemKinds |-> NoHandler]]
    /\ faults = {}
    /\ delivered = [r \in RecIds |-> [k \in MemKinds |-> <<>>]]
    /\ accepted = [r \in RecIds |-> [k \in MemKinds |-> <<>>]]
    /\ completed = [r \in RecIds |-> [k \in MemKinds |-> <<>>]]
    /\ finds = [c \in FindIds |-> NoFind]
    /\ files = [f \in FileIds |-> NoFile]
    /\ aborted = ""

Init == InitWith(ImageNames)

Running == aborted = ""

(***************************************************************************)
(* FileSystem::init                                                        *)
(***************************************************************************)

Geometry(sb) ==
    LET blockShift == 10 + sb.logBlockSize
        blockSize == Shl(1024, sb.logBlockSize)
    IN [ready |-> TRUE,
        inodeSize |-> sb.inodeSize,
        blockShift |-> blockShift,
        blockSize |-> blockSize,
        blockPagesShift |-> IF blockShift < pageShift THEN pageShift ELSE blockShift,
        sectorsPerBlock |-> blockSize \div SectorSize,
        numBlockGroups |-> sb.blocksCount \div sb.blocksPerGroup,
        inodesPerGroup |-> sb.inodesPerGroup]

FsInit ==
    /\ Running
    /\ ~fs.ready
    /\ IF Img.sb.magic # 61267 \/ Img.sb.blocksPerGroup = 0
       THEN aborted' = "GeometryInvalid" /\ fs' = fs
       ELSE fs' = Geometry(Img.sb) /\ aborted' = aborted
    /\ UNCHANGED <<img, activeInodes, inodes, users, initiate, mem, manageQ, handler,
                   faults, delivered, accepted, completed, finds, files>>

(***************************************************************************)
(* The inode cache: FileSystem::accessInode, and a caller dropping a       *)
(* handle.                                                                 *)
(***************************************************************************)

\* coroutine frames that hold a shared_ptr<Inode> of record r: initiateInode
\* until it returns, and each spawned handler (its loop never ends)
FrameRefs(r) ==
    (IF initiate[r].pc \in {"read", "raised"} THEN 1 ELSE 0)
    + Cardinality({k \in MemKinds : handler[r][k].pc # "none"})

\* use_count of record r
StrongRefs(r) == users[r] + FrameRefs(r)

Alive(r) == inodes[r].number # 0 /\ StrongRefs(r) > 0

\* inode_slot.lock(): the record the slot names if it is still alive, else 0
LockSlotNever(slot) == 0

LockSlot(slot) == IF slot # 0 /\ Alive(slot) THEN slot ELSE 0

\* initiateInode up to its first suspension: the sector read of the inode
InitiateInodeStart(number) ==
    LET block_group == (number - 1) \div fs.inodesPerGroup
        index == (number - 1) % fs.inodesPerGroup
        offset == index * fs.inodeSize
        inode_table_block == Img.bgdt[block_group + 1]
        sector == inode_table_block * fs.sectorsPerBlock + offset \div SectorSize
    IN [pc |-> "read", sector |-> sector, offset |-> offset]

AccessInode(number) ==
    /\ Running
    /\ fs.ready
    /\ number > 0
    /\ LET active_inode == LockSlot(activeInodes[number])
       IN IF active_inode # 0
          THEN /\ users[active_inode] < MaxUsers
               /\ users' = [users EXCEPT ![active_inode] = @ + 1]
               /\ UNCHANGED <<activeInodes, inodes, initiate>>
          ELSE \E new \in RecIds :
               /\ inodes[new].number = 0
               /\ \A r \in RecIds : r < new => inodes[r].number # 0
               /\ inodes' = [inodes EXCEPT ![new] =
                      [NoInode EXCEPT !.number = number]]
               /\ activeInodes' = [activeInodes EXCEPT ![number] = new]
               /\ initiate' = [initiate EXCEPT ![new] = InitiateInodeStart(number)]
               /\ users' = [users EXCEPT ![new] = 1]
    /\ UNCHANGED <<img, fs, mem, manageQ, handler, faults, delivered, accepted,
                   completed, aborted>>
    /\ UNCHANGED <<finds, files>>

\* a caller destroys one shared_ptr<Inode> it holds
ReleaseHandle(r) ==
    /\ Running
    /\ users[r] > 0
    /\ users' = [users EXCEPT ![r] = @ - 1]
    /\ UNCHANGED <<img, fs, activeInodes, inodes, initiate, mem, manageQ, handler,
                   faults, delivered, accepted, completed, aborted>>
    /\ UNCHANGED <<finds, files>>

(***************************************************************************)
(* Managed memory (the kernel's side of the interface of section 6).       *)
(***************************************************************************)

\* helCreateManagedMemory(size): no page resident, every byte zero
NewMemory(size) == [created |-> TRUE, size |-> size, pages |-> <<>>, cells |-> <<>>]

PagesOf(offset, length) ==
    {p \in offset \div pageSize .. (offset + length - 1) \div pageSize : length > 0}

PageState(m, p) == IF p \in DOMAIN m.pages THEN m.pages[p] ELSE "absent"

\* every page of the range is resident: a lock of the range completes
RangeLoaded(m, offset, length) ==
    PagesOf(offset, length) = {p \in PagesOf(offset, length) : PageState(m, p) = "loaded"}

\* the range lies inside the object
RangeInside(m, offset, length) == m.created /\ offset + length <= m.size

SetPages(m, ps, st) ==
    [m EXCEPT !.pages = [p \in DOMAIN m.pages \cup ps |->
                            IF p \in ps THEN st ELSE m.pages[p]]]

\* helCompleteLoad(offset, length): the pages of the range become resident
CompleteLoad(m, ev) == SetPages(m, PagesOf(ev.offset, ev.length), "loaded")

\* readSectors(lba, window + at, count) into the object: cell by cell
WriteSectors(m, at, lba, count) ==
    LET first == at \div SectorSize
        cs == first .. first + count - 1
    IN [m EXCEPT !.cells = [c \in DOMAIN m.cells \cup cs |->
                               IF c \in cs THEN lba + (c - first) ELSE m.cells[c]]]

\* the uint32 a mapping of the object shows at a byte offset
ReadU32(m, at) ==
    IF at \div SectorSize \in DOMAIN m.cells
    THEN DiskU32(m.cells[at \div SectorSize], (at % SectorSize) \div 4)
    ELSE 0

\* ranges of object k of record r that some lock waits for
WantedRanges(r, k) ==
    (IF k = "data"
     THEN {[offset |-> f.offset, length |-> f.length] : f \in {g \in faults : g.r = r}}
          \cup {[offset |-> 0, length |-> PageRoundUp(inodes[r].fileSize)] :
                   c \in {d \in FindIds : finds[d].pc = "lock" /\ finds[d].r = r}}
          \cup {[offset |-> 0, length |-> PageRoundUp(inodes[r].fileSize)] :
                   f \in {g \in FileIds : files[g].pc = "lock" /\ files[g].r = r}}
     ELSE {})
    \cup {[offset |-> handler[r][h].lockOff, length |-> handler[r][h].lockLen] :
             h \in {g \in MemKinds : handler[r][g].pc = "lock"
                                     /\ handler[r][g].lockKind = k}}

\* the kernel starts a load: it delivers one manage event for absent pages
\* that a pending lock needs, of one page or of several
KernelInitiateLoad(r, k) ==
    /\ Running
    /\ mem[r][k].created
    /\ Len(delivered[r][k]) < MaxLoads
    /\ \E w \in WantedRanges(r, k) :
       LET missing == {q \in PagesOf(w.offset, w.length) : PageState(mem[r][k], q) = "absent"}
       IN /\ missing # {}
          /\ LET p == CHOOSE q \in missing : missing \cap (w.offset \div pageSize .. q - 1) = {}
             IN \E n \in (1 .. MaxEventPages) \cup {w.length \div pageSize} :
                LET ev == [offset |-> p * pageSize, length |-> n * pageSize] IN
                /\ RangeInside(mem[r][k], ev.offset, ev.length)
                /\ {q \in PagesOf(ev.offset, ev.length) :
                        PageState(mem[r][k], q) # "absent"} = {}
                /\ mem' = [mem EXCEPT ![r][k] =
                              SetPages(@, PagesOf(ev.offset, ev.length), "loading")]
                /\ manageQ' = [manageQ EXCEPT ![r][k] = Append(@, ev)]
                /\ delivered' = [delivered EXCEPT ![r][k] = Append(@, ev)]
    /\ UNCHANGED <<img, fs, activeInodes, inodes, users, initiate, handler, faults,
                   accepted, completed, aborted>>
    /\ UNCHANGED <<finds, files>>

\* a client touches a range of the frontal file memory of record r: the pages
\* around the ends of the direct, single-indirect and whole-file ranges
FaultOffsets(r) ==
    LET bs == fs.blockSize
        last == (inodes[r].fileSize - 1) \div pageSize
        marks == {0, 11 * bs, 12 * bs, (11 + bs \div 4) * bs, (12 + bs \div 4) * bs,
                  last * pageSize}
    IN {(b \div pageSize) * pageSize : b \in {x \in marks : x < inodes[r].fileSize}}

ClientFault(r, offset, length) ==
    /\ Running
    /\ mem[r]["data"].created
    /\ Cardinality(faults) < MaxFaults
    /\ offset % pageSize = 0
    /\ RangeInside(mem[r]["data"], offset, length)
    /\ [r |-> r, offset |-> offset, length |-> length] \notin faults
    /\ faults' = faults \cup {[r |-> r, offset |-> offset, length |-> length]}
    /\ UNCHANGED <<img, fs, activeInodes, inodes, users, initiate, mem, manageQ,
                   handler, delivered, accepted, completed, aborted>>
    /\ UNCHANGED <<finds, files>>

(***************************************************************************)
(* FileSystem::initiateInode, resumed when the inode's sector has been     *)
(* read: it runs to its end without another suspension and leaves the      *)
(* three handlers waiting for their first manage event.                    *)
(***************************************************************************)

\* a classification that takes every inode for a regular file
FormatOfRegular(mode) == EXT2_S_IFREG

\* mode & EXT2_S_IFMT
FormatOf(mode) == ((mode \div 4096) % 16) * 4096

\* a wait that never suspends
ReadyJumpWaitsNever(ino) == FALSE

\* COFIBER_AWAIT readyJump.async_wait(): the caller is suspended unless the
\* jump has been triggered
ReadyJumpWaits(ino) == ~ino.readyJump

\* inode->isReady = true; inode->readyJump.trigger()
RaiseReadyJumpOnly(ino) == [ino EXCEPT !.readyJump = TRUE]

RaiseReady(ino) == [ino EXCEPT !.isReady = TRUE, !.readyJump = TRUE]

\* the fields of the record read from the DiskInode, and the raised flag
InodeFrom(ino, disk_inode) ==
    LET fmt == FormatOf(disk_inode.mode) IN
    RaiseReady([ino EXCEPT !.fileType = IF fmt = EXT2_S_IFREG THEN kTypeRegular
                                        ELSE IF fmt = EXT2_S_IFLNK THEN kTypeSymlink
                                        ELSE kTypeDirectory,
                           !.fileSize = disk_inode.size,
                           !.fileData = [direct |-> disk_inode.direct,
                                         singleIndirect |-> disk_inode.singleIndirect,
                                         doubleIndirect |-> disk_inode.doubleIndirect,
                                         tripleIndirect |-> disk_inode.tripleIndirect],
                           !.mode = disk_inode.mode % 4096,
                           !.numLinks = disk_inode.linksCount])

\* helCreateManagedMemory for the page cache of the file
FileMemory(disk_inode) == NewMemory(PageRoundUp(disk_inode.size))

\* helCreateManagedMemory for the caches of indirect blocks
IndirectMemory(k) ==
    IF k = "ord1" THEN NewMemory(Shl(3, fs.blockPagesShift))
    ELSE NewMemory(Shl(fs.blockSize \div 4, fs.blockPagesShift))

\* the three handlers up to their first submitManageMemory
Spawned == [k \in MemKinds |-> [NoHandler EXCEPT !.pc = "wait"]]

InitiateInodeResume(r) ==
    /\ Running
    /\ initiate[r].pc = "read"
    /\ LET disk_inode == DiskInodeAt(initiate[r].sector, initiate[r].offset % SectorSize)
           fmt == FormatOf(disk_inode.mode)
       IN IF fmt \notin {EXT2_S_IFREG, EXT2_S_IFLNK, EXT2_S_IFDIR}
          THEN /\ aborted' = "UnsupportedInodeType"
               /\ UNCHANGED <<inodes, initiate, mem, handler>>
          ELSE /\ inodes' = [inodes EXCEPT ![r] = InodeFrom(@, disk_inode)]
               /\ mem' = [mem EXCEPT ![r] =
                     [k \in MemKinds |->
                        IF k = "data" THEN FileMemory(disk_inode) ELSE IndirectMemory(k)]]
               /\ handler' = [handler EXCEPT ![r] = Spawned]
               /\ initiate' = [initiate EXCEPT ![r].pc = "done"]
               /\ aborted' = aborted
    /\ UNCHANGED <<img, fs, activeInodes, users, manageQ, faults, delivered, accepted,
                   completed>>
    /\ UNCHANGED <<finds, files>>

\* the same resumption up to the return of readyJump.trigger(): the observers
\* that wait for readyJump may be resumed before the initializer goes on
InitiateInodeRaise(r) ==
    /\ Running
    /\ initiate[r].pc = "read"
    /\ LET disk_inode == DiskInodeAt(initiate[r].sector, initiate[r].offset % SectorSize)
           fmt == FormatOf(disk_inode.mode)
       IN IF fmt \notin {EXT2_S_IFREG, EXT2_S_IFLNK, EXT2_S_IFDIR}
          THEN /\ aborted' = "UnsupportedInodeType"
               /\ UNCHANGED <<inodes, initiate, mem>>
          ELSE /\ inodes' = [inodes EXCEPT ![r] = InodeFrom(@, disk_inode)]
               /\ mem' = [mem EXCEPT ![r]["data"] = FileMemory(disk_inode)]
               /\ initiate' = [initiate EXCEPT ![r].pc = "raised"]
               /\ aborted' = aborted
    /\ UNCHANGED <<img, fs, activeInodes, users, manageQ, handler, faults, delivered,
                   accepted, completed>>
    /\ UNCHANGED <<finds, files>>

\* the rest of the initializer: the two caches of indirect blocks and the
\* three handlers
InitiateInodeSpawn(r) ==
    /\ Running
    /\ initiate[r].pc = "raised"
    /\ mem' = [mem EXCEPT ![r] =
          [k \in MemKinds |-> IF k = "data" THEN mem[r][k] ELSE IndirectMemory(k)]]
    /\ handler' = [handler EXCEPT ![r] = Spawned]
    /\ initiate' = [initiate EXCEPT ![r].pc = "done"]
    /\ UNCHANGED <<img, fs, activeInodes, inodes, users, manageQ, faults, delivered,
                   accepted, completed, aborted>>
    /\ UNCHANGED <<finds, files>>

(***************************************************************************)
(* FileSystem::readData: the block mapper with read fusion.                *)
(***************************************************************************)

per_indirect == fs.blockSize \div 4
i_range == 12
s_range == i_range + per_indirect
\* a range that reaches twice as far behind the single-indirect blocks
d_rangeDoubled == s_range + 2 * per_indirect * per_indirect

d_range == s_range + per_indirect * per_indirect

\* a run that is extended without comparing the block numbers
FuseCountGreedy(n, index, remaining, list, limit) ==
    IF remaining < limit - index THEN remaining ELSE limit - index

\* a run that is never extended
FuseCountSingle(n, index, remaining, list, limit) == n

\* the condition of the while loop of the lambda fuse
FuseExtends(n, index, remaining, list, limit) ==
    n < remaining /\ index + n < limit /\ list[index + n] = list[index] + n

\* the lambda fuse: n counts up from its start while the loop condition
\* holds, so the result is the first n at which it fails
FuseCount(n, index, remaining, list, limit) ==
    CHOOSE m \in n .. (IF remaining > n THEN remaining ELSE n) :
       /\ ~FuseExtends(m, index, remaining, list, limit)
       /\ \A j \in n .. m - 1 : FuseExtends(j, index, remaining, list, limit)

\* a fuse that takes the length of the direct list as the limit of every table
fuseDirectLimit(index, remaining, list, limit) ==
    [first |-> list[index], second |-> FuseCount(1, index, remaining, list, 12)]

fuse(index, remaining, list, limit) ==
    [first |-> list[index], second |-> FuseCount(1, index, remaining, list, limit)]

\* the table a read-only mapping of one slot of an indirect cache shows
MappedTable(m, at) == [j \in 0 .. per_indirect - 1 |-> ReadU32(m, at + 4 * j)]

\* what a step of a handler leaves: its next state, or the reason it ended the
\* process, or done when it returned to its caller
Go(h) == [h |-> h, abort |-> "", done |-> FALSE]
Fatal(h, why) == [h |-> h, abort |-> why, done |-> FALSE]
Done(h) == [h |-> h, abort |-> "", done |-> TRUE]

\* a read that is issued without looking at its first block
IssueReadUnchecked(h, issue) ==
    Go([h EXCEPT !.pc = "read", !.block = issue.first, !.count = issue.second])

\* assert(issue.first != 0); readSectors(issue.first * sectorsPerBlock, ...)
IssueRead(h, issue) ==
    IF issue.first = 0 THEN Fatal(h, "HoleEncountered")
    ELSE Go([h EXCEPT !.pc = "read", !.block = issue.first, !.count = issue.second])

\* the head of the while loop of readData, up to the next suspension
ReadDataLoop(r, h) ==
    IF h.progress >= h.numBlocks THEN Done(h)
    ELSE LET index == h.offset + h.progress IN
         IF index >= d_range THEN Fatal(h, "TripleIndirectUnsupported")
         ELSE IF index >= s_range
         THEN Go([h EXCEPT !.pc = "lock", !.index = index, !.lockKind = "ord2",
                     !.lockOff = Shl(Shr(index - s_range, fs.blockShift - 2),
                                     fs.blockPagesShift),
                     !.lockLen = Shl(1, fs.blockPagesShift)])
         ELSE IF index >= i_range
         THEN Go([h EXCEPT !.pc = "lock", !.index = index, !.lockKind = "ord1",
                     !.lockOff = 0, !.lockLen = Shl(1, fs.blockPagesShift)])
         ELSE IssueRead([h EXCEPT !.index = index],
                        fuse(index, h.numBlocks - h.progress,
                             inodes[r].fileData.direct, 12))

\* a lookup that forgets to subtract the first block of the table's range
ReadDataLockedNoBase(r, h) ==
    LET table == MappedTable(mem[r][h.lockKind], h.lockOff)
    IN IssueRead(h, fuse(h.index % per_indirect, h.numBlocks - h.progress,
                         table, per_indirect))

\* readData resumed when the lock of the indirect cache has completed
ReadDataLocked(r, h) ==
    LET table == MappedTable(mem[r][h.lockKind], h.lockOff)
        at == IF h.lockKind = "ord2"
              THEN (h.index - s_range) % Shl(1, fs.blockShift - 2)
              ELSE h.index - i_range
    IN IssueRead(h, fuse(at, h.numBlocks - h.progress, table, per_indirect))

\* readData resumed when its sector read has completed: the blocks are in the
\* window at progress * blockSize
\* a transfer that forgets the blocks already read for the event
ReadDataWindowAtStart(m, h) ==
    WriteSectors(m, h.ev.offset,
                 h.block * fs.sectorsPerBlock, h.count * fs.sectorsPerBlock)

ReadDataWindow(m, h) ==
    WriteSectors(m, h.ev.offset + h.progress * fs.blockSize,
                 h.block * fs.sectorsPerBlock, h.count * fs.sectorsPerBlock)

\* a loop that counts one block for every read, whatever the length of the run
ReadDataReadOneBlock(r, h) == ReadDataLoop(r, [h EXCEPT !.progress = @ + 1])

\* progress += issue.second, then the head of the loop again
ReadDataRead(r, h) == ReadDataLoop(r, [h EXCEPT !.progress = @ + h.count])

(***************************************************************************)
(* FileSystem::manageFileData                                              *)
(***************************************************************************)

\* the handler is suspended in submitManageMemory(...).async_wait()
AwaitsManageAlways(h) == h.pc # "none"

AwaitsManage(h) == h.pc = "wait"

\* the range passed to helCompleteLoad for a manage event
LoadedRangeOnePage(ev) == [offset |-> ev.offset, length |-> pageSize]

LoadedRange(ev) == [offset |-> ev.offset, length |-> ev.length]

\* the outcome of a handler step on object k of record r, over memory m
Settle(r, k, out, m) ==
    IF out.abort # ""
    THEN /\ aborted' = out.abort
         /\ UNCHANGED <<mem, handler, completed>>
    ELSE IF out.done
    THEN /\ completed' = [completed EXCEPT ![r][k] = Append(@, LoadedRange(out.h.ev))]
         /\ mem' = [mem EXCEPT ![r][k] = CompleteLoad(m, LoadedRange(out.h.ev))]
         /\ handler' = [handler EXCEPT ![r][k] = [NoHandler EXCEPT !.pc = "wait"]]
         /\ aborted' = aborted
    ELSE /\ handler' = [handler EXCEPT ![r][k] = out.h]
         /\ mem' = [mem EXCEPT ![r][k] = m]
         /\ UNCHANGED <<completed, aborted>>

\* a handler that passes every event inside the file to readData
ManageFileDataEventUnchecked(r, ev) ==
    LET ino == inodes[r]
        read_size == Min(ev.length, ino.fileSize - ev.offset)
        num_blocks == read_size \div fs.blockSize
                      + (IF read_size % fs.blockSize # 0 THEN 1 ELSE 0)
        h == [NoHandler EXCEPT !.ev = ev, !.offset = ev.offset \div fs.blockSize,
                               !.numBlocks = num_blocks]
    IN IF ev.offset + ev.length > PageRoundUp(ino.fileSize)
       THEN Fatal(h, "AssertionFailed")
       ELSE ReadDataLoop(r, h)

\* one pass of the loop from the manage event to the first suspension
ManageFileDataEvent(r, ev) ==
    LET ino == inodes[r]
        read_size == Min(ev.length, ino.fileSize - ev.offset)
        num_blocks == read_size \div fs.blockSize
                      + (IF read_size % fs.blockSize # 0 THEN 1 ELSE 0)
        h == [NoHandler EXCEPT !.ev = ev, !.offset = ev.offset \div fs.blockSize,
                               !.numBlocks = num_blocks]
    IN IF ev.offset + ev.length > PageRoundUp(ino.fileSize)
       THEN Fatal(h, "AssertionFailed")
       ELSE IF ev.offset % fs.blockSize # 0 \/ num_blocks * fs.blockSize > ev.length
       THEN Fatal(h, "AlignmentViolation")
       ELSE IF ReadyJumpWaits(ino)
       THEN Go([h EXCEPT !.pc = "ready"])
       ELSE ReadDataLoop(r, h)

ManageFileDataAccept(r) ==
    /\ Running
    /\ AwaitsManage(handler[r]["data"])
    /\ manageQ[r]["data"] # <<>>
    /\ LET ev == Head(manageQ[r]["data"]) IN
       /\ manageQ' = [manageQ EXCEPT ![r]["data"] = Tail(@)]
       /\ accepted' = [accepted EXCEPT ![r]["data"] = Append(@, ev)]
       /\ Settle(r, "data", ManageFileDataEvent(r, ev), mem[r]["data"])
    /\ UNCHANGED <<img, fs, activeInodes, inodes, users, initiate, faults, delivered>>
    /\ UNCHANGED <<finds, files>>

\* the handler resumed inside readData: after the wait for readyJump, after the
\* lock of an indirect cache, or after the sector read
ManageFileDataResume(r) ==
    /\ Running
    /\ LET h == handler[r]["data"] IN
       IF h.pc = "ready"
       THEN /\ inodes[r].readyJump
            /\ Settle(r, "data", ReadDataLoop(r, h), mem[r]["data"])
       ELSE IF h.pc = "lock"
       THEN /\ RangeLoaded(mem[r][h.lockKind], h.lockOff, h.lockLen)
            /\ Settle(r, "data", ReadDataLocked(r, h), mem[r]["data"])
       ELSE /\ h.pc = "read"
            /\ Settle(r, "data", ReadDataRead(r, h), ReadDataWindow(mem[r]["data"], h))
    /\ UNCHANGED <<img, fs, activeInodes, inodes, users, initiate, manageQ, faults,
                   delivered, accepted>>
    /\ UNCHANGED <<finds, files>>

(***************************************************************************)
(* FileSystem::manageIndirect, for order 1 (object ord1) and order 2       *)
(* (object ord2).                                                          *)
(***************************************************************************)

OrderOf(k) == IF k = "ord1" THEN 1 ELSE 2

\* a handler that reads its block whatever the range of the event
ManageIndirectIssueAnyRange(h, block) ==
    Go([h EXCEPT !.pc = "read", !.block = block, !.count = 1])

\* the asserts on the event, then readSectors(block * sectorsPerBlock, ...)
ManageIndirectIssue(h, block) ==
    IF h.ev.offset % Shl(1, fs.blockPagesShift) # 0
       \/ h.ev.length # Shl(1, fs.blockPagesShift)
    THEN Fatal(h, "AlignmentViolation")
    ELSE Go([h EXCEPT !.pc = "read", !.block = block, !.count = 1])

\* an order-2 handler that locks the cache it fills
Order2LocksItself == "ord2"

\* the object the order-2 handler locks: inode->indirectOrder1
Order2Locks == "ord1"

\* a switch that takes the single-indirect block for every element
IndirectRootSingle(fileData, element) == fileData.singleIndirect

\* the cases 0, 1, 2 of the switch over element for order 1
IndirectRoot(fileData, element) ==
    IF element = 0 THEN fileData.singleIndirect
    ELSE IF element = 1 THEN fileData.doubleIndirect
    ELSE fileData.tripleIndirect

\* one pass of the loop from the manage event to the first suspension
ManageIndirectEvent(r, order, ev) ==
    LET element == Shr(ev.offset, fs.blockPagesShift)
        h == [NoHandler EXCEPT !.ev = ev, !.index = element]
    IN IF order = 1
       THEN IF element \in {0, 1, 2}
            THEN ManageIndirectIssue(h, IndirectRoot(inodes[r].fileData, element))
            ELSE Fatal(h, "AssertionFailed")
       ELSE LET indirect_frame == Shr(element, fs.blockShift - 2)
                lockOff == Shl(1 + indirect_frame, fs.blockPagesShift)
                lockLen == Shl(1, fs.blockPagesShift)
            IN IF ~RangeInside(mem[r][Order2Locks], lockOff, lockLen)
               THEN Fatal(h, "IoFailed")
               ELSE Go([h EXCEPT !.pc = "lock", !.lockKind = Order2Locks,
                           !.lockOff = lockOff, !.lockLen = lockLen])

\* a lookup that takes the first entry of the root table for every element
ManageIndirectLockedFirstEntry(r, h) ==
    ManageIndirectIssue(h, ReadU32(mem[r]["ord1"], h.lockOff))

\* order 2 resumed when the lock of indirectOrder1 has completed
ManageIndirectLocked(r, h) ==
    LET indirect_index == h.index % Shl(1, fs.blockShift - 2)
    IN ManageIndirectIssue(h, ReadU32(mem[r][h.lockKind], h.lockOff + 4 * indirect_index))

\* resumed when the sector read has completed: one block is in the window
ManageIndirectWindow(m, h) ==
    WriteSectors(m, h.ev.offset, h.block * fs.sectorsPerBlock, fs.sectorsPerBlock)

ManageIndirectAccept(r, k) ==
    /\ Running
    /\ k \in {"ord1", "ord2"}
    /\ AwaitsManage(handler[r][k])
    /\ manageQ[r][k] # <<>>
    /\ LET ev == Head(manageQ[r][k]) IN
       /\ manageQ' = [manageQ EXCEPT ![r][k] = Tail(@)]
       /\ accepted' = [accepted EXCEPT ![r][k] = Append(@, ev)]
       /\ Settle(r, k, ManageIndirectEvent(r, OrderOf(k), ev), mem[r][k])
    /\ UNCHANGED <<img, fs, activeInodes, inodes, users, initiate, faults, delivered>>
    /\ UNCHANGED <<finds, files>>

ManageIndirectResume(r, k) ==
    /\ Running
    /\ k \in {"ord1", "ord2"}
    /\ LET h == handler[r][k] IN
       IF h.pc = "lock"
       THEN /\ RangeLoaded(mem[r][h.lockKind], h.lockOff, h.lockLen)
            /\ Settle(r, k, ManageIndirectLocked(r, h), mem[r][k])
       ELSE /\ h.pc = "read"
            /\ Settle(r, k, Done(h), ManageIndirectWindow(mem[r][k], h))
    /\ UNCHANGED <<img, fs, activeInodes, inodes, users, initiate, manageQ, faults,
                   delivered, accepted>>
    /\ UNCHANGED <<finds, files>>

(***************************************************************************)
(* Inode::findEntry                                                        *)
(***************************************************************************)

DiskDirEntryBytes == 8

\* the DiskDirEntry a mapping of object m shows at a byte offset
MappedDirEntry(m, at) ==
    IF at \div SectorSize \in DOMAIN m.cells
    THEN LET lba == m.cells[at \div SectorSize]
         IN DiskDirEntryAt(lba \div fs.sectorsPerBlock,
                           (lba % fs.sectorsPerBlock) * SectorSize + (at % SectorSize))
    ELSE ZeroDirEntry

\* character i (from 1) of a C string: past its end stands the terminator
CharAt(str, i) == IF i <= Len(str) THEN str[i] ELSE 0

\* strncmp(s1, s2, n) == 0: the first n characters agree, or the strings
\* agree up to a NUL that both hold before
RECURSIVE StrNCmpFrom(_, _, _, _)
StrNCmpFrom(s1, s2, n, i) ==
    IF i > n THEN TRUE
    ELSE IF CharAt(s1, i) # CharAt(s2, i) THEN FALSE
    ELSE IF CharAt(s1, i) = 0 THEN TRUE
    ELSE StrNCmpFrom(s1, s2, n, i + 1)

StrNCmpIsZero(s1, s2, n) == StrNCmpFrom(s1, s2, n, 1)

\* the switch over disk_entry->fileType
FileTypeOf(ft) ==
    IF ft = EXT2_FT_REG_FILE THEN kTypeRegular
    ELSE IF ft = EXT2_FT_DIR THEN kTypeDirectory
    ELSE IF ft = EXT2_FT_SYMLINK THEN kTypeSymlink
    ELSE kTypeNone

EntryResult(e) == [NoResult EXCEPT !.kind = "entry", !.inode = e.inode,
                                   !.fileType = FileTypeOf(e.fileType)]
Absent == [NoResult EXCEPT !.kind = "absent"]
Failed == [NoResult EXCEPT !.kind = "abort"]
Spins == [NoResult EXCEPT !.kind = "spin"]

\* an end of the walk that does not look where the walk stopped
WalkEndAbsent(offset, fileSize) == Absent

\* assert(offset == fileSize); COFIBER_RETURN(nullopt)
WalkEnd(offset, fileSize) == IF offset = fileSize THEN Absent ELSE Failed

\* the while loop over the directory and the assert after it; a record of
\* length 0 that does not match keeps the loop at its offset for ever
RECURSIVE FindEntryWalk(_, _, _, _)
FindEntryWalk(m, fileSize, name, offset) ==
    IF offset < fileSize
    THEN LET disk_entry == MappedDirEntry(m, offset) IN
         IF Len(name) = disk_entry.nameLength
            /\ StrNCmpIsZero(disk_entry.name, name, disk_entry.nameLength)
         THEN EntryResult(disk_entry)
         ELSE IF disk_entry.recordLength = 0 THEN Spins
         ELSE FindEntryWalk(m, fileSize, name, offset + disk_entry.recordLength)
    ELSE WalkEnd(offset, fileSize)

\* a walk that starts where the cursor of an open file of the record stands
WalkStartAtCursor(r) ==
    LET open == {f \in FileIds : files[f].r = r}
    IN IF open = {} THEN 0 ELSE files[CHOOSE f \in open : TRUE].offset

\* uintptr_t offset = 0
WalkStart(r) == 0

\* a caller that holds a handle of record r starts findEntry(name); the
\* coroutine runs to its first suspension
FindEntryCall(c, r, name) ==
    /\ Running
    /\ finds[c].pc = "none"
    /\ \A d \in FindIds : d < c => finds[d].pc # "none"
    /\ inodes[r].number # 0
    /\ users[r] > 0
    /\ name # <<>> /\ name # NameDot /\ name # NameDotDot
    /\ finds' = [finds EXCEPT ![c] =
          [NoFind EXCEPT !.r = r, !.name = name,
                         !.pc = IF ReadyJumpWaits(inodes[r]) THEN "ready" ELSE "lock"]]
    /\ UNCHANGED <<img, fs, activeInodes, inodes, users, initiate, mem, manageQ,
                   handler, faults, delivered, accepted, completed, files, aborted>>

\* findEntry resumed: after the wait for readyJump it submits the lock of
\* the whole file; after the lock it walks the directory and returns
FindEntryResume(c) ==
    /\ Running
    /\ LET call == finds[c]
           ino == inodes[call.r]
       IN IF call.pc = "ready"
          THEN /\ ino.readyJump
               /\ finds' = [finds EXCEPT ![c].pc = "lock"]
               /\ aborted' = aborted
          ELSE /\ call.pc = "lock"
               /\ RangeLoaded(mem[call.r]["data"], 0, PageRoundUp(ino.fileSize))
               /\ LET res == FindEntryWalk(mem[call.r]["data"], ino.fileSize,
                                           call.name, WalkStart(call.r))
                  IN IF res.kind = "abort"
                     THEN aborted' = "DirectoryCorrupt" /\ finds' = finds
                     ELSE IF res.kind = "spin"
                     THEN aborted' = "Spinning" /\ finds' = finds
                     ELSE /\ finds' = [finds EXCEPT ![c].pc = "done", ![c].result = res]
                          /\ aborted' = aborted
    /\ UNCHANGED <<img, fs, activeInodes, inodes, users, initiate, mem, manageQ,
                   handler, faults, delivered, accepted, completed, files>>

(***************************************************************************)
(* OpenFile and OpenFile::readEntries.  A caller starts readEntries on a   *)
(* cursor only when its previous call on that cursor has returned.         *)
(***************************************************************************)

\* OpenFile::OpenFile(inode): the cursor keeps a shared_ptr of its own
OpenFile(f, r) ==
    /\ Running
    /\ files[f].r = 0
    /\ \A g \in FileIds : g < f => files[g].r # 0
    /\ inodes[r].number # 0
    /\ users[r] > 0
    /\ users[r] < MaxUsers
    /\ users' = [users EXCEPT ![r] = @ + 1]
    /\ files' = [files EXCEPT ![f] = [NoFile EXCEPT !.r = r]]
    /\ UNCHANGED <<img, fs, activeInodes, inodes, initiate, mem, manageQ, handler,
                   faults, delivered, accepted, completed, finds, aborted>>

\* a return that leaves the cursor where it was
ReturnedInPlace(file, res, offset) ==
    [file EXCEPT !.pc = "idle",
                 !.log = Append(@, [at |-> file.at, kind |-> res.kind,
                                    name |-> res.name, offset |-> file.offset])]

Returned(file, res, offset) ==
    [file EXCEPT !.pc = "idle", !.offset = offset,
                 !.log = Append(@, [at |-> file.at, kind |-> res.kind,
                                    name |-> res.name, offset |-> offset])]

\* the new offset of the cursor: offset += disk_entry->recordLength
AdvancedByHeader(offset, disk_entry) ==
    offset + DiskDirEntryBytes + disk_entry.nameLength

Advanced(offset, disk_entry) == offset + disk_entry.recordLength

\* readEntries from the end of the wait for readyJump to the next suspension
ReadEntriesReady(file) ==
    LET ino == inodes[file.r] IN
    IF file.offset > ino.fileSize THEN Fatal(file, "AssertionFailed")
    ELSE IF file.offset = ino.fileSize THEN Done(Returned(file, Absent, file.offset))
    ELSE Go([file EXCEPT !.pc = "lock"])

\* readEntries resumed when the lock of the whole file has completed
ReadEntriesLocked(file) ==
    LET ino == inodes[file.r]
        disk_entry == MappedDirEntry(mem[file.r]["data"], file.offset)
    IN IF file.offset + DiskDirEntryBytes > ino.fileSize
          \/ file.offset + disk_entry.recordLength > ino.fileSize
       THEN Fatal(file, "DirectoryCorrupt")
       ELSE Done(Returned(file,
                          [NoResult EXCEPT !.kind = "name",
                              !.name = SubSeq(disk_entry.name, 1, disk_entry.nameLength)],
                          Advanced(file.offset, disk_entry)))

SettleFile(f, out) ==
    IF out.abort # ""
    THEN aborted' = out.abort /\ files' = files
    ELSE files' = [files EXCEPT ![f] = out.h] /\ aborted' = aborted

\* the readEntries calls started so far, over all cursors
RECURSIVE ReadsUpTo(_)
ReadsUpTo(n) ==
    IF n = 0 THEN 0
    ELSE ReadsUpTo(n - 1) + Len(files[n].log) + (IF files[n].pc = "idle" THEN 0 ELSE 1)

ReadsStarted == ReadsUpTo(MaxFiles)

ReadEntriesCall(f) ==
    /\ Running
    /\ files[f].r # 0
    /\ files[f].pc = "idle"
    /\ ReadsStarted < MaxReads
    /\ LET file == [files[f] EXCEPT !.at = files[f].offset] IN
       IF ReadyJumpWaits(inodes[file.r])
       THEN SettleFile(f, Go([file EXCEPT !.pc = "ready"]))
       ELSE SettleFile(f, ReadEntriesReady(file))
    /\ UNCHANGED <<img, fs, activeInodes, inodes, users, initiate, mem, manageQ,
                   handler, faults, delivered, accepted, completed, finds>>

ReadEntriesResume(f) ==
    /\ Running
    /\ files[f].r # 0
    /\ IF files[f].pc = "ready"
       THEN /\ inodes[files[f].r].readyJump
            /\ SettleFile(f, ReadEntriesReady(files[f]))
       ELSE /\ files[f].pc = "lock"
            /\ RangeLoaded(mem[files[f].r]["data"], 0,
                           PageRoundUp(inodes[files[f].r].fileSize))
            /\ SettleFile(f, ReadEntriesLocked(files[f]))
    /\ UNCHANGED <<img, fs, activeInodes, inodes, users, initiate, mem, manageQ,
                   handler, faults, delivered, accepted, completed, finds>>

(***************************************************************************)
(* The driver with its clients and the kernel.                             *)
(***************************************************************************)

\* a client opens an inode that the cache does not hold yet
OpenInode(n) == activeInodes[n] = 0 /\ AccessInode(n)

Paging ==
    \/ \E r \in RecIds : InitiateInodeResume(r)
    \/ \E r \in RecIds : \E o \in FaultOffsets(r) : ClientFault(r, o, pageSize)
    \/ \E r \in RecIds, k \in MemKinds : KernelInitiateLoad(r, k)
    \/ \E r \in RecIds : ManageFileDataAccept(r)
    \/ \E r \in RecIds : ManageFileDataResume(r)
    \/ \E r \in RecIds, k \in MemKinds : ManageIndirectAccept(r, k)
    \/ \E r \in RecIds, k \in MemKinds : ManageIndirectResume(r, k)

\* page-in: every inode is opened once and its pages are faulted in
Next ==
    \/ FsInit
    \/ \E n \in InodeNums : OpenInode(n)
    \/ Paging

Spec == Init /\ [][Next]_vars

\* the inode cache: handles are taken and dropped while records initialize
NextCache ==
    \/ FsInit
    \/ \E n \in InodeNums : AccessInode(n)
    \/ \E r \in RecIds : ReleaseHandle(r)
    \/ \E r \in RecIds : InitiateInodeResume(r)

SpecCache == Init /\ [][NextCache]_vars

\* page-in of one file under a fair dispatcher, kernel and block device: a
\* manage event that can be raised is raised, a handler that can take an
\* event or go on after a lock or a sector read does so
NextLive ==
    \/ FsInit
    \/ OpenInode(12)
    \/ Paging

Fairness ==
    \A r \in RecIds :
       /\ WF_vars(ManageFileDataAccept(r))
       /\ WF_vars(ManageFileDataResume(r))
       /\ \A k \in MemKinds :
             /\ WF_vars(KernelInitiateLoad(r, k))
             /\ WF_vars(ManageIndirectAccept(r, k))
             /\ WF_vars(ManageIndirectResume(r, k))

InitLive == InitWith({"indirect"})

SpecLive == InitLive /\ [][NextLive]_vars /\ Fairness

\* the ranges a client touches in the read-fusion runs: the page of the last
\* direct block, and the pages of all blocks of the single-indirect table
FusionFaults ==
    {[offset |-> 11 * pageSize, length |-> pageSize],
     [offset |-> 12 * pageSize, length |-> FusionTableBlocks * pageSize]}

\* read fusion: one file is opened and paged in
NextFusion ==
    \/ FsInit
    \/ OpenInode(12)
    \/ \E r \in RecIds : InitiateInodeResume(r)
    \/ \E r \in RecIds : \E f \in FusionFaults :
          f.offset \in FaultOffsets(r) /\ ClientFault(r, f.offset, f.length)
    \/ \E r \in RecIds, k \in MemKinds : KernelInitiateLoad(r, k)
    \/ \E r \in RecIds : ManageFileDataAccept(r)
    \/ \E r \in RecIds : ManageFileDataResume(r)
    \/ \E r \in RecIds, k \in MemKinds : ManageIndirectAccept(r, k)
    \/ \E r \in RecIds, k \in MemKinds : ManageIndirectResume(r, k)

InitFusion == InitWith({"fusion"})

SpecFusion == InitFusion /\ [][NextFusion]_vars

\* the pages a client touches in the runs at the limits of the block map:
\* the first page, the page in the middle of the first block, the page of
\* the last direct block, and the pages of the last block below and the
\* first block at d_range
LimitFaultOffsets(r) ==
    LET bs == fs.blockSize
        per == bs \div 4
        blocks == IF bs = 0 THEN 0 ELSE (inodes[r].fileSize + bs - 1) \div bs
        marks == {0, 11, 11 + per + per * per, 12 + per + per * per}
    IN {((b * bs) \div pageSize) * pageSize : b \in {x \in marks : x < blocks}}
       \cup (IF bs \div 2 < inodes[r].fileSize
             THEN {((bs \div 2) \div pageSize) * pageSize}
             ELSE {})

\* the limits of the block map: one file is opened and paged in
NextLimits ==
    \/ FsInit
    \/ OpenInode(12)
    \/ \E r \in RecIds : InitiateInodeResume(r)
    \/ \E r \in RecIds : \E o \in LimitFaultOffsets(r) : ClientFault(r, o, pageSize)
    \/ \E r \in RecIds, k \in MemKinds : KernelInitiateLoad(r, k)
    \/ \E r \in RecIds : ManageFileDataAccept(r)
    \/ \E r \in RecIds : ManageFileDataResume(r)
    \/ \E r \in RecIds, k \in MemKinds : ManageIndirectAccept(r, k)
    \/ \E r \in RecIds, k \in MemKinds : ManageIndirectResume(r, k)

InitLimits == InitWith(LimitImageNames)

SpecLimits == InitLimits /\ [][NextLimits]_vars

\* FileSystem::accessRoot
AccessRoot == AccessInode(EXT2_ROOT_INO)

\* directories: the root is opened once, searched and enumerated
NextDir ==
    \/ FsInit
    \/ activeInodes[EXT2_ROOT_INO] = 0 /\ AccessRoot
    \/ \E r \in RecIds : InitiateInodeResume(r)
    \/ \E r \in RecIds, k \in MemKinds : KernelInitiateLoad(r, k)
    \/ \E r \in RecIds : ManageFileDataAccept(r)
    \/ \E r \in RecIds : ManageFileDataResume(r)
    \/ \E c \in FindIds, r \in RecIds, name \in SearchNames : FindEntryCall(c, r, name)
    \/ \E c \in FindIds : FindEntryResume(c)
    \/ \E f \in FileIds, r \in RecIds : OpenFile(f, r)
    \/ \E f \in FileIds : ReadEntriesCall(f)
    \/ \E f \in FileIds : ReadEntriesResume(f)

InitDir == InitWith(DirImageNames)

SpecDir == InitDir /\ [][NextDir]_vars

\* records whose initializer is inside readyJump.trigger()
Triggering == {r \in RecIds : initiate[r].pc = "raised"}

\* the root is opened and searched while its initializer runs: a call that
\* waits for readyJump is resumed by trigger() itself or by the dispatcher
\* later; nothing else of the driver runs before trigger() returns
NextReady ==
    \/ FsInit
    \/ Triggering = {} /\ activeInodes[EXT2_ROOT_INO] = 0 /\ AccessRoot
    \/ \E r \in RecIds : InitiateInodeRaise(r)
    \/ \E r \in RecIds : InitiateInodeSpawn(r)
    \/ \E r \in RecIds, k \in MemKinds : KernelInitiateLoad(r, k)
    \/ \E r \in RecIds : Triggering = {} /\ ManageFileDataAccept(r)
    \/ \E r \in RecIds : Triggering = {} /\ ManageFileDataResume(r)
    \/ \E c \in FindIds, r \in RecIds, name \in SearchNames :
          Triggering = {} /\ FindEntryCall(c, r, name)
    \/ \E c \in FindIds :
          (Triggering = {} \/ finds[c].pc = "ready") /\ FindEntryResume(c)
    \/ \E f \in FileIds, r \in RecIds : Triggering = {} /\ OpenFile(f, r)
    \/ \E f \in FileIds : Triggering = {} /\ ReadEntriesCall(f)
    \/ \E f \in FileIds :
          (Triggering = {} \/ files[f].pc = "ready") /\ ReadEntriesResume(f)

InitReady == InitWith({"dirfour", "dirempty", "dirzero", "dirdeleted"})

SpecReady == InitReady /\ [][NextReady]_vars

(***************************************************************************)
(* Properties of the inode cache (checked under SpecCache).                *)
(***************************************************************************)

\* records of inode number n that some shared_ptr still holds
LiveRecords(n) == {r \in RecIds : inodes[r].number = n /\ Alive(r)}

\* C1: for every inode number n, while a record of n is held, every
\* accessInode(n) returns that one record (the cache slot names it and no
\* other record of n has a holder), and exactly one initiateInode coroutine
\* was started for it -- also while that coroutine still waits for its first
\* sector read.
C1_SameRecordOneInitializer ==
    \A n \in InodeNums :
       LiveRecords(n) # {} =>
          /\ LiveRecords(n) = {activeInodes[n]}
          /\ \A r \in RecIds : inodes[r].number = n /\ users[r] > 0 => r = activeInodes[n]
          /\ Cardinality({r \in RecIds : inodes[r].number = n
                                         /\ initiate[r].pc # "none"}) = 1

\* two handles on one record whose initializer has not finished its sector read
C1_Witness ==
    \E r \in RecIds : users[r] >= 2 /\ initiate[r].pc = "read" /\ ~inodes[r].isReady

\* C2: when the last user of a record has released its handle (and the
\* initializer has returned), the record is released: nothing keeps it alive
\* and no handler still waits on its backing handles.
C2_ReleasedWhenUnheld ==
    \A r \in RecIds :
       (inodes[r].number # 0 /\ users[r] = 0 /\ initiate[r].pc = "done") =>
          (~Alive(r) /\ \A k \in MemKinds : handler[r][k].pc = "none")

(***************************************************************************)
(* Properties of page-in (checked under Spec).                             *)
(***************************************************************************)

\* Reference: the disk block of logical block lb of record r as ext2 lays a
\* file out (12 direct pointers, one table, one table of tables), read from
\* the disk itself and not through the caches.
MapBlock(r, lb) ==
    LET fd == inodes[r].fileData
        e == lb - s_range
    IN IF lb < i_range THEN fd.direct[lb]
       ELSE IF lb < s_range THEN DiskBlockU32(fd.singleIndirect, lb - i_range)
       ELSE DiskBlockU32(DiskBlockU32(fd.doubleIndirect, e \div per_indirect),
                         e % per_indirect)

\* a byte of the disk is named by its place, a zero byte by <<>>
ZeroByte == <<>>
DiskByte(b, o) == IF DiskByteIsZero(b, o) THEN ZeroByte ELSE <<b, o>>

\* the byte a mapping of memory object m shows at position p
ByteOf(m, p) ==
    IF p \div SectorSize \in DOMAIN m.cells
    THEN LET lba == m.cells[p \div SectorSize]
         IN DiskByte(lba \div fs.sectorsPerBlock,
                     (lba % fs.sectorsPerBlock) * SectorSize + (p % SectorSize))
    ELSE ZeroByte

\* Transfers are whole sectors, so the bytes of one cell on one side of a
\* bound share their source: the first and last byte of every cell of
\* [lo, hi), and lo and hi - 1, stand for all positions of the range.
Positions(lo, hi) ==
    IF hi <= lo THEN {}
    ELSE {p \in {lo, hi - 1}
                 \cup UNION {{c * SectorSize, c * SectorSize + SectorSize - 1} :
                                c \in lo \div SectorSize .. (hi - 1) \div SectorSize} :
             lo <= p /\ p < hi}

\* C3: once the file-data handler has posted complete-load for a manage
\* event, every byte at a position p < fileSize of the event's range is byte
\* (p mod blockSize) of the disk block that ext2's mapping gives logical
\* block (p div blockSize).
C3_LoadedBytesAreFileBytes ==
    \A r \in RecIds :
       \A i \in 1 .. Len(completed[r]["data"]) :
          LET ev == completed[r]["data"][i] IN
          \A p \in Positions(ev.offset, Min(ev.offset + ev.length, inodes[r].fileSize)) :
             ByteOf(mem[r]["data"], p)
                = DiskByte(MapBlock(r, p \div fs.blockSize), p % fs.blockSize)

\* a completed two-page event that spans the direct and the single-indirect
\* range, and a completed event in the double-indirect range
C3_Witness ==
    \E r \in RecIds :
       /\ img = "indirect"
       /\ [offset |-> 2 * pageSize, length |-> 2 * pageSize]
             \in {completed[r]["data"][i] : i \in 1 .. Len(completed[r]["data"])}
       /\ \E i \in 1 .. Len(completed[r]["data"]) :
             completed[r]["data"][i].offset \div fs.blockSize >= s_range

\* C4: after the page-in of the last page of a file has completed, every
\* byte of [fileSize, round_up(fileSize, page)) reads as zero.
C4_TailReadsZero ==
    \A r \in RecIds :
       LET L == inodes[r].fileSize
           m == mem[r]["data"]
       IN (L > 0 /\ m.created /\ RangeLoaded(m, ((L - 1) \div pageSize) * pageSize, pageSize)) =>
             \A p \in Positions(L, PageRoundUp(L)) : ByteOf(m, p) = ZeroByte

\* C8: a handler of a record has posted complete-load only if isReady was
\* raised and readyJump triggered for that record before.
C8_ReadyBeforeCompleteLoad ==
    \A r \in RecIds : \A k \in MemKinds :
       completed[r][k] # <<>> => inodes[r].isReady /\ inodes[r].readyJump

\* all three handlers of one record have posted a complete-load
C8_Witness ==
    \E r \in RecIds : \A k \in MemKinds : completed[r][k] # <<>>

\* C9: every handler accepts manage events in the order of their delivery
\* and has at most one event in flight: all events accepted before the
\* latest one have their complete-load posted.
C9_OneEventInFlight ==
    \A r \in RecIds : \A k \in MemKinds :
       /\ delivered[r][k] = accepted[r][k] \o manageQ[r][k]
       /\ Len(completed[r][k]) <= Len(accepted[r][k])
       /\ Len(accepted[r][k]) <= Len(completed[r][k]) + 1
       /\ (Running /\ AwaitsManage(handler[r][k])) =>
             Len(accepted[r][k]) = Len(completed[r][k])

\* a handler that accepted a second event, delivered while it served the first
C9_Witness ==
    \E r \in RecIds : \E k \in MemKinds :
       /\ Len(accepted[r][k]) = 2
       /\ Len(completed[r][k]) >= 1
       /\ handler[r][k].pc = "read"

\* C10: the complete-loads of a handler are, one for one and in order, the
\* (offset, length) of the manage events it accepted: none is posted twice,
\* none for a range that no accepted event names.
C10_CompleteLoadMatchesEvent ==
    \A r \in RecIds : \A k \in MemKinds :
       /\ Len(completed[r][k]) <= Len(accepted[r][k])
       /\ \A i \in 1 .. Len(completed[r][k]) : completed[r][k][i] = accepted[r][k][i]

\* a completed event of two pages and a completed event of an indirect handler
C10_Witness ==
    \E r \in RecIds :
       /\ \E i \in 1 .. Len(completed[r]["data"]) :
             completed[r]["data"][i].length = 2 * pageSize
       /\ completed[r]["ord1"] # <<>>


(***************************************************************************)
(* Directories.  The reference reads the records from the disk image       *)
(* through the block map, without the driver's memory objects.             *)
(***************************************************************************)

RecordAt(r, offset) ==
    DiskDirEntryAt(MapBlock(r, offset \div fs.blockSize), offset % fs.blockSize)

RECURSIVE FirstMatch(_, _, _)
FirstMatch(r, name, offset) ==
    IF offset >= inodes[r].fileSize THEN Absent
    ELSE LET e == RecordAt(r, offset) IN
         IF e.nameLength = Len(name) /\ SubSeq(e.name, 1, e.nameLength) = name
         THEN [NoResult EXCEPT !.kind = "entry", !.inode = e.inode,
                  !.fileType = CASE e.fileType = 1 -> kTypeRegular
                                 [] e.fileType = 2 -> kTypeDirectory
                                 [] e.fileType = 7 -> kTypeSymlink
                                 [] OTHER -> kTypeNone]
         ELSE IF e.recordLength = 0 THEN Absent
         ELSE FirstMatch(r, name, offset + e.recordLength)

\* C5: a findEntry call that has returned gave the inode and the mapped file
\* type of the first on-disk record whose name length and name bytes equal
\* the searched name, and absent when no record before fileSize has them.
C5_FindEntryFirstByteEqualRecord ==
    \A c \in FindIds :
       finds[c].pc = "done" => finds[c].result = FirstMatch(finds[c].r, finds[c].name, 0)

\* C6: every readEntries call that has returned gave absent exactly when the
\* cursor stood at fileSize when it was called, and otherwise gave the name
\* of the on-disk record at that offset and moved the cursor by exactly that
\* record's recordLength.
C6_ReadEntriesNextRecord ==
    \A f \in FileIds :
       \A i \in 1 .. Len(files[f].log) :
          LET e == files[f].log[i]
              rec == RecordAt(files[f].r, e.at)
          IN /\ (e.kind = "absent") <=> (e.at = inodes[files[f].r].fileSize)
             /\ e.kind = "absent" => e.offset = e.at
             /\ e.kind # "absent" =>
                   /\ e.kind = "name"
                   /\ e.name = SubSeq(rec.name, 1, rec.nameLength)
                   /\ e.offset = e.at + rec.recordLength
             /\ e.at = (IF i = 1 THEN 0 ELSE files[f].log[i - 1].offset)

\* a cursor that has walked both blocks of a two-block directory and then
\* met the end
C6_Witness ==
    \E f \in FileIds :
       /\ img = "dirtwo"
       /\ Len(files[f].log) = 6
       /\ files[f].log[4].at = 1024 /\ files[f].log[4].kind = "name"
       /\ files[f].log[6].kind = "absent" /\ files[f].log[6].at = 2048

DirFourOffsets == <<12, 24, 40, 1024>>

\* C7 as stated: on the directory of size 1024 with record lengths
\* 12, 12, 16, 984 the calls on a fresh cursor yield the offsets
\* 12, 24, 40, 1024 and the fourth call returns absent.
C7_FourthCallAbsent ==
    \A f \in FileIds :
       (img = "dirfour" /\ Len(files[f].log) >= 4) =>
          /\ \A i \in 1 .. 4 : files[f].log[i].offset = DirFourOffsets[i]
          /\ files[f].log[4].kind = "absent"

\* C7: on that directory the first four calls on a fresh cursor return the
\* four names and yield the offsets 12, 24, 40, 1024; the fifth call is the
\* first that returns absent, and it leaves the offset at 1024.
C7_FifthCallAbsent ==
    \A f \in FileIds :
       img = "dirfour" =>
          \A i \in 1 .. Len(files[f].log) :
             IF i <= 4
             THEN /\ files[f].log[i].offset = DirFourOffsets[i]
                  /\ files[f].log[i].kind = "name"
             ELSE /\ files[f].log[i].offset = 1024
                  /\ files[f].log[i].kind = "absent"

\* the fifth call on the four-record directory has returned
C7_Witness ==
    \E f \in FileIds :
       /\ img = "dirfour"
       /\ Len(files[f].log) = 5
       /\ files[f].log[4].name = NameA
       /\ files[f].log[5].kind = "absent"

(***************************************************************************)
(* The block mapper and read fusion.                                       *)
(***************************************************************************)

\* the entry of the indirect caches (or of the direct list) that the claimed
\* mapping names for logical block lb
CachedBlock(r, lb) ==
    LET per == fs.blockSize \div 4
        slot == Shl(1, fs.blockPagesShift)
        e == lb - (12 + per)
    IN IF lb < 12 THEN inodes[r].fileData.direct[lb]
       ELSE IF lb < 12 + per THEN ReadU32(mem[r]["ord1"], 4 * (lb - 12))
       ELSE ReadU32(mem[r]["ord2"], (e \div per) * slot + 4 * (e % per))

\* C11: the first block of every sector read readData issues for logical
\* block L is direct[L] for L < 12, entry L - 12 of slot 0 of the indirect1
\* cache for 12 <= L < s_range, and entry (L - s_range) mod per_indirect of
\* slot (L - s_range) div per_indirect of the indirect2 cache below d_range;
\* that entry is the one the on-disk tables hold.
C11_BlockMapperResolves ==
    \A r \in RecIds :
       LET h == handler[r]["data"] IN
       h.pc = "read" =>
          /\ h.index < 12 + fs.blockSize \div 4
                          + (fs.blockSize \div 4) * (fs.blockSize \div 4)
          /\ h.block = CachedBlock(r, h.index)
          /\ h.block = MapBlock(r, h.index)

\* a read in flight whose block was resolved through the indirect2 cache
C11_Witness ==
    \E r \in RecIds :
       /\ img = "indirect"
       /\ handler[r]["data"].pc = "read"
       /\ handler[r]["data"].index >= s_range
       /\ handler[r]["data"].block = 950

\* the request manageFileData passes to readData for a manage event
RequestBlocks(r, ev) ==
    LET read_size == Min(ev.length, inodes[r].fileSize - ev.offset)
    IN (read_size + fs.blockSize - 1) \div fs.blockSize

\* n separate single-block reads of logical blocks lb, lb + 1, ... into the
\* buffer, block k at k * blockSize
RECURSIVE ReadBlocksOneByOne(_, _, _, _, _)
ReadBlocksOneByOne(m, r, at, lb, n) ==
    IF n = 0 THEN m
    ELSE ReadBlocksOneByOne(
            WriteSectors(m, at, MapBlock(r, lb) * fs.sectorsPerBlock, fs.sectorsPerBlock),
            r, at + fs.blockSize, lb + 1, n - 1)

SectorsOf(offset, length) ==
    offset \div SectorSize .. (offset + length) \div SectorSize - 1

\* C12: when readData has returned for a request (start, num_blocks, buffer),
\* the buffer holds what num_blocks separate single-block reads of the
\* logical blocks start .. start + num_blocks - 1 place there, block k at
\* k * blockSize.
C12_FusedEqualsPerBlock ==
    \A r \in RecIds :
       \A i \in 1 .. Len(completed[r]["data"]) :
          LET ev == completed[r]["data"][i]
              n == RequestBlocks(r, ev)
              ref == ReadBlocksOneByOne(NewMemory(mem[r]["data"].size), r, ev.offset,
                                        ev.offset \div fs.blockSize, n)
          IN \A c \in SectorsOf(ev.offset, n * fs.blockSize) :
                /\ c \in DOMAIN mem[r]["data"].cells
                /\ mem[r]["data"].cells[c] = ref.cells[c]

\* a completed request of eight blocks that took three fused reads (four
\* direct blocks, then two runs of the single-indirect table), and a second
\* completed request
C12_Witness ==
    \E r \in RecIds :
       /\ img = "indirect"
       /\ Len(completed[r]["data"]) = 2
       /\ completed[r]["data"][2] = [offset |-> 2 * pageSize, length |-> 2 * pageSize]

\* the first logical block behind the table that holds logical block lb: the
\* direct list, the single-indirect table, or one double-indirect leaf
TableEnd(lb) ==
    LET per == fs.blockSize \div 4 IN
    IF lb < 12 THEN 12
    ELSE IF lb < 12 + per THEN 12 + per
    ELSE 12 + per + ((lb - 12 - per) \div per + 1) * per

\* C13: every sector read readData issues covers a run of n >= 1 blocks that
\* stays within the remaining request and within the table of its first
\* block, over consecutive physical blocks, and no longer run does: the run
\* ends with the request, at the end of the table, or where the next entry is
\* not the next physical block.
C13_RunsAreMaximalInTable ==
    \A r \in RecIds :
       LET h == handler[r]["data"]
           remaining == h.numBlocks - h.progress
       IN h.pc = "read" =>
             /\ h.count >= 1
             /\ h.count <= remaining
             /\ h.index + h.count <= TableEnd(h.index)
             /\ \A k \in 0 .. h.count - 1 : MapBlock(r, h.index + k) = h.block + k
             /\ \/ h.count = remaining
                \/ h.index + h.count = TableEnd(h.index)
                \/ MapBlock(r, h.index + h.count) # h.block + h.count

\* a read of the last direct block alone, for a request of two blocks whose
\* second block is the next physical block, in the single-indirect table
C13_Witness ==
    \E r \in RecIds :
       LET h == handler[r]["data"] IN
       /\ img = "fusion"
       /\ h.pc = "read" /\ h.index = 11 /\ h.count = 1
       /\ h.numBlocks - h.progress = 2
       /\ MapBlock(r, 12) = h.block + 1

\* C14 as stated: with block size 4096 and the single-indirect table
\* 200 .. 1223, the sector read readData issues for logical block 12 starts at
\* disk block 200 and covers 1024 blocks (1024 * 8 sectors at LBA 200 * 8).
C14_Block12ReadsWholeTable ==
    \A r \in RecIds :
       LET h == handler[r]["data"] IN
       (img = "fusion" /\ h.pc = "read" /\ h.index = 12) =>
          /\ h.block * fs.sectorsPerBlock = 200 * 8
          /\ h.count * fs.sectorsPerBlock = 1024 * 8

\* C14: on that file the sector read issued for logical block 12 starts at
\* LBA 200 * 8 and covers the blocks that remain of the request, at most 1024:
\* it is the read of 1024 * 8 sectors exactly when the manage event covers
\* the pages of all 1024 blocks of the table.
C14_Block12ReadsRestOfRequest ==
    \A r \in RecIds :
       LET h == handler[r]["data"] IN
       (img = "fusion" /\ h.pc = "read" /\ h.index = 12) =>
          /\ h.block * fs.sectorsPerBlock = 200 * 8
          /\ h.count = Min(h.numBlocks - h.progress, 1024)
          /\ (h.count * fs.sectorsPerBlock = 1024 * 8) <=>
                (h.ev.offset + h.ev.length = (12 + 1024) * pageSize /\ h.ev.offset <= 12 * pageSize)

\* the read of 1024 * 8 sectors at LBA 200 * 8 is in flight
C14_Witness ==
    \E r \in RecIds :
       LET h == handler[r]["data"] IN
       /\ img = "fusion"
       /\ h.pc = "read" /\ h.index = 12
       /\ h.block = 200 /\ h.count = 1024
       /\ h.ev = [offset |-> 12 * pageSize, length |-> 1024 * pageSize]

(***************************************************************************)
(* Geometry and the failures of initialization and of the block map.       *)
(***************************************************************************)

\* C15: after init() the block groups counted cover every block
\* (numBlockGroups * blocks_per_group >= blocks_count), and blockSize is a
\* whole multiple of 512 with sectorsPerBlock = blockSize / 512.
C15_GeometryCoversBlocks ==
    fs.ready =>
       /\ fs.numBlockGroups * Img.sb.blocksPerGroup >= Img.sb.blocksCount
       /\ fs.blockSize % 512 = 0
       /\ fs.sectorsPerBlock * 512 = fs.blockSize

\* whether (mode & S_IFMT) of the on-disk inode of record r is none of
\* REG (8), LNK (10), DIR (4)
UnsupportedOnDisk(r) ==
    /\ inodes[r].number \in DOMAIN Img.ino
    /\ (Img.ino[inodes[r].number].mode \div 4096) % 16 \notin {8, 10, 4}

\* C16: for a record whose on-disk inode is none of regular file, symlink,
\* directory, isReady is never raised, readyJump is never triggered, no
\* managed memory object is created and no handler is spawned; its
\* initializer never returns, it ends the process (UnsupportedInodeType).
C16_UnsupportedTypeIsFatal ==
    \A r \in RecIds :
       UnsupportedOnDisk(r) =>
          /\ ~inodes[r].isReady
          /\ ~inodes[r].readyJump
          /\ \A k \in MemKinds : ~mem[r][k].created /\ handler[r][k].pc = "none"
          /\ initiate[r].pc # "done"
          /\ aborted \in {"", "UnsupportedInodeType"}

\* the initializer of the FIFO inode has been resumed
C16_Witness ==
    \E r \in RecIds :
       /\ img = "fifo"
       /\ UnsupportedOnDisk(r)
       /\ initiate[r].pc = "read"
       /\ aborted = "UnsupportedInodeType"

\* the first logical block the direct, single- and double-indirect ranges
\* do not reach
BeyondDouble == 12 + fs.blockSize \div 4 + (fs.blockSize \div 4) * (fs.blockSize \div 4)

\* C17: no sector read is issued, and no indirect cache is locked, for a
\* logical block L >= d_range, and no manage event whose request reaches
\* such a block is ever completed: the handler that needs it ends the
\* process (TripleIndirectUnsupported).
C17_BeyondDoubleIsFatal ==
    \A r \in RecIds :
       LET h == handler[r]["data"] IN
       /\ h.pc \in {"lock", "read"} => h.index < BeyondDouble
       /\ h.pc = "read" => h.index + h.count <= BeyondDouble
       /\ \A i \in 1 .. Len(completed[r]["data"]) :
             LET ev == completed[r]["data"][i] IN
             ev.offset \div fs.blockSize + RequestBlocks(r, ev) <= BeyondDouble
       /\ (/\ Len(accepted[r]["data"]) > 0
           /\ h.pc = "wait"
           /\ LET ev == accepted[r]["data"][Len(accepted[r]["data"])] IN
              /\ ev.offset \div fs.blockSize + RequestBlocks(r, ev) > BeyondDouble
              /\ Len(completed[r]["data"]) < Len(accepted[r]["data"]))
          => aborted = "TripleIndirectUnsupported"

\* a request that starts below d_range and reaches beyond it has read its
\* blocks below d_range and then stopped
C17_Witness ==
    \E r \in RecIds :
       LET h == handler[r]["data"] IN
       /\ img = "beyond"
       /\ aborted = "TripleIndirectUnsupported"
       /\ h.pc = "read"
       /\ h.index + h.count = BeyondDouble
       /\ h.numBlocks = 8

\* C18: no sector read of readData covers physical block 0 or a logical
\* block that maps to physical block 0, and no manage event whose request
\* holds such a logical block is completed.
C18_NoReadOfBlockZero ==
    \A r \in RecIds :
       LET h == handler[r]["data"] IN
       /\ h.pc = "read" =>
             /\ h.block > 0
             /\ \A k \in 0 .. h.count - 1 : MapBlock(r, h.index + k) # 0
       /\ \A i \in 1 .. Len(completed[r]["data"]) :
             LET ev == completed[r]["data"][i] IN
             \A k \in 0 .. RequestBlocks(r, ev) - 1 :
                MapBlock(r, ev.offset \div fs.blockSize + k) # 0

\* a run of two blocks was read, it ended before the unmapped third block of
\* the request, and the handler stopped there
C18_Witness ==
    \E r \in RecIds :
       LET h == handler[r]["data"] IN
       /\ img = "holes"
       /\ aborted = "HoleEncountered"
       /\ h.pc = "read" /\ h.index = 0 /\ h.count = 2
       /\ MapBlock(r, 2) = 0 /\ MapBlock(r, 3) = MapBlock(r, 1) + 2

(***************************************************************************)
(* The length of manage events.                                            *)
(***************************************************************************)

LastAccepted(r, k) == accepted[r][k][Len(accepted[r][k])]

\* the handler of object k has taken a manage event it has not completed
InFlight(r, k) == Len(accepted[r][k]) > Len(completed[r][k])

RECURSIVE EndOfWalk(_, _)
EndOfWalk(r, offset) ==
    IF offset >= inodes[r].fileSize THEN offset
    ELSE IF RecordAt(r, offset).recordLength = 0 THEN -1
    ELSE EndOfWalk(r, offset + RecordAt(r, offset).recordLength)

\* C20: a findEntry call returns absent only in a directory whose walk,
\* started at 0 and advanced by each record's recordLength, lands exactly on
\* fileSize; where the walk steps past fileSize no call ever returns absent,
\* and a call for a name no record holds does not return at all.
C20_AbsentOnlyAtExactEnd ==
    \A c \in FindIds :
       finds[c].pc = "done" =>
          /\ finds[c].result.kind = "absent" =>
                EndOfWalk(finds[c].r, 0) = inodes[finds[c].r].fileSize
          /\ EndOfWalk(finds[c].r, 0) > inodes[finds[c].r].fileSize =>
                /\ finds[c].result.kind = "entry"
                /\ FirstMatch(finds[c].r, finds[c].name, 0).kind = "entry"

\* the search for a name the overshooting directory does not hold has ended
\* the process, with no other directory call in flight
C20_Witness ==
    /\ img = "dirover"
    /\ aborted = "DirectoryCorrupt"
    /\ \A f \in FileIds : files[f].pc = "idle"
    /\ \E c \in FindIds :
          /\ finds[c].pc = "lock"
          /\ finds[c].name = NameA
          /\ EndOfWalk(finds[c].r, 0) = 1028
          /\ \A d \in FindIds \ {c} : finds[d].pc \in {"none", "done"}

(***************************************************************************)
(* findEntry among the other calls.                                        *)
(***************************************************************************)

\* C21: a step of a findEntry call leaves every inode record, the inode
\* cache, the handle counts and every cursor as they were, and any two calls
\* with the same inode and name that have returned gave equal results,
\* whatever readEntries calls and page-in steps ran between them.
C21_FindEntryReadOnlyRepeatable ==
    /\ [](\A c, d \in FindIds :
             (/\ finds[c].pc = "done" /\ finds[d].pc = "done"
              /\ finds[c].r = finds[d].r /\ finds[c].name = finds[d].name)
             => finds[c].result = finds[d].result)
    /\ [][finds' # finds =>
             /\ inodes' = inodes
             /\ activeInodes' = activeInodes
             /\ users' = users
             /\ \A f \in FileIds : files'[f].offset = files[f].offset]_vars

\* two calls for the same name have returned the record, and a cursor on the
\* same directory has moved past that record
C21_Witness ==
    \E c, d \in FindIds :
       /\ c # d
       /\ img = "dirfour"
       /\ finds[c].pc = "done" /\ finds[d].pc = "done"
       /\ finds[c].r = finds[d].r
       /\ finds[c].name = NameHello /\ finds[d].name = NameHello
       /\ finds[c].result.kind = "entry" /\ finds[c].result.inode = 12
       /\ \E f \in FileIds : files[f].r = finds[c].r /\ files[f].offset = 1024

(***************************************************************************)
(* The reach of a fatal error.                                             *)
(***************************************************************************)

\* every handler of record r waits for a manage event and none of them has
\* taken an event it did not complete: no fatal error was raised in them
NoHandlerFailed(r) ==
    \A k \in MemKinds : handler[r][k].pc = "wait" /\ ~InFlight(r, k)

\* C22: a fatal error raised in a handler of one inode leaves the handlers of
\* every other inode at work: a handler of an inode in whose handlers no
\* error was raised, with a manage event delivered to it, can accept it.
C22_FatalIsPerInode ==
    \A r \in RecIds, k \in MemKinds :
       (NoHandlerFailed(r) /\ manageQ[r][k] # <<>>) =>
          IF k = "data" THEN ENABLED ManageFileDataAccept(r)
          ELSE ENABLED ManageIndirectAccept(r, k)

(***************************************************************************)
(* Readiness.                                                              *)
(***************************************************************************)

\* C23: whenever a record's isReady is true, its three managed memory pairs
\* (file data, indirect order 1, indirect order 2) have been created.
C23_ReadyImpliesAllPairs ==
    \A r \in RecIds :
       inodes[r].isReady => \A k \in MemKinds : mem[r][k].created

\* findEntry, readEntries or readData of record r has passed its wait for
\* readyJump and reads the fields of the record
PastReadyWait(r) ==
    \/ \E c \in FindIds : finds[c].r = r /\ finds[c].pc \in {"lock", "done"}
    \/ \E f \in FileIds : files[f].r = r /\ (files[f].pc = "lock" \/ files[f].log # <<>>)
    \/ handler[r]["data"].pc \in {"lock", "read"}
    \/ completed[r]["data"] # <<>>

\* C24: findEntry, readEntries and readData get past their wait for
\* readyJump only when isReady is true; a call started while the jump is not
\* triggered is suspended at that wait, and a call started after the trigger
\* goes on at once.
C24_FieldsReadOnlyWhenReady ==
    /\ [](\A r \in RecIds : PastReadyWait(r) => inodes[r].isReady)
    /\ [][/\ \A c \in FindIds :
                (finds[c].pc = "none" /\ finds'[c].pc # "none") =>
                   finds'[c].pc = (IF inodes[finds'[c].r].readyJump THEN "lock" ELSE "ready")
          /\ \A f \in FileIds :
                (files[f].r # 0 /\ files[f].pc = "idle" /\ files'[f] # files[f]) =>
                   (files'[f].pc = "ready") = ~inodes[files[f].r].readyJump]_vars

\* a findEntry call and a readEntries call made before the trigger are
\* suspended, while another findEntry call has been resumed by it
C24_Witness ==
    \E c, d \in FindIds : \E f \in FileIds :
       /\ finds[c].pc = "ready" /\ finds[d].pc = "lock"
       /\ finds[c].r = finds[d].r
       /\ files[f].pc = "ready" /\ files[f].r = finds[c].r
       /\ inodes[finds[c].r].isReady
       /\ initiate[finds[c].r].pc = "raised"

(***************************************************************************)
(* The chain of caches behind the double-indirect block.                   *)
(***************************************************************************)

\* C25: for a logical block L in [s_range, d_range) with e = L - s_range,
\* readData locks slot e div per_indirect of the indirect2 cache and reads
\* the physical block that entry e mod per_indirect of the disk block named
\* by entry e div per_indirect of the doubleIndirect block holds; the order-2
\* handler fills that slot through its lock of slot 1 + first_level of the
\* indirect1 cache, which the order-1 handler fills from the doubleIndirect
\* block.
C25_DoubleIndirectChain ==
    \A r \in RecIds :
       LET h == handler[r]["data"]
           h1 == handler[r]["ord1"]
           h2 == handler[r]["ord2"]
           per == fs.blockSize \div 4
           slot == Shl(1, fs.blockPagesShift)
           e == h.index - (12 + per)
           root == inodes[r].fileData.doubleIndirect
       IN /\ (h.pc = "lock" /\ h.lockKind = "ord2") =>
                /\ e >= 0 /\ e < per * per
                /\ h.lockOff = (e \div per) * slot
                /\ h.lockLen = slot
          /\ (h.pc = "read" /\ h.index >= 12 + per) =>
                /\ e < per * per
                /\ h.block = DiskBlockU32(DiskBlockU32(root, e \div per), e % per)
          /\ h2.pc = "lock" =>
                /\ h2.lockKind = "ord1"
                /\ h2.lockOff = (1 + h2.index \div per) * slot
                /\ h2.lockLen = slot
          /\ h2.pc = "read" =>
                /\ h2.index < per
                /\ h2.block = DiskBlockU32(root, h2.index)
          /\ (h1.pc = "read" /\ h1.index = 1) => h1.block = root

\* the read of the first block the last double-indirect leaf maps, resolved
\* through both caches
C25_Witness ==
    \E r \in RecIds :
       LET h == handler[r]["data"] IN
       /\ img = "beyond"
       /\ h.pc = "read"
       /\ h.index = 12 + 256 + 255 * 256 + 252
       /\ h.block = 2000
       /\ completed[r]["ord1"] = <<[offset |-> pageSize, length |-> pageSize]>>
       /\ completed[r]["ord2"] = <<[offset |-> 255 * pageSize, length |-> pageSize]>>

(***************************************************************************)
(* The order-1 handler.                                                    *)
(***************************************************************************)

\* the block the claimed table names for an element of the indirect1 cache
RootOfElement(r, element) ==
    CASE element = 0 -> inodes[r].fileData.singleIndirect
      [] element = 1 -> inodes[r].fileData.doubleIndirect
      [] element = 2 -> inodes[r].fileData.tripleIndirect
      [] OTHER -> -1

\* the sectors of object m that lie in the window of event ev
WindowCells(m, ev) ==
    {c \in DOMAIN m.cells : c * SectorSize >= ev.offset
                            /\ c * SectorSize < ev.offset + ev.length}

\* C26: with element = offset >> blockPagesShift, the order-1 handler reads
\* the singleIndirect block for element 0, doubleIndirect for 1 and
\* tripleIndirect for 2, one block at the start of the event's window and
\* nothing else; for every other element it stops with no sector read and no
\* complete-load.
C26_Order1ReadsTheRoot ==
    \A r \in RecIds :
       LET h == handler[r]["ord1"]
           m == mem[r]["ord1"]
           slot == Shl(1, fs.blockPagesShift)
       IN /\ h.pc = "read" =>
                /\ h.index = h.ev.offset \div slot
                /\ h.block = RootOfElement(r, h.index)
                /\ h.count = 1
          /\ \A i \in 1 .. Len(completed[r]["ord1"]) :
                LET ev == completed[r]["ord1"][i]
                    first == ev.offset \div SectorSize
                IN /\ WindowCells(m, ev) = first .. first + fs.sectorsPerBlock - 1
                   /\ \A c \in WindowCells(m, ev) :
                         m.cells[c] = RootOfElement(r, ev.offset \div slot)
                                         * fs.sectorsPerBlock + (c - first)
          /\ inodes[r].isReady =>
                \A element \in 0 .. 5 :
                   LET out == ManageIndirectEvent(r, 1, [offset |-> element * slot,
                                                         length |-> slot])
                   IN IF element <= 2
                      THEN /\ out.abort = "" /\ out.h.pc = "read"
                           /\ out.h.block = RootOfElement(r, element)
                      ELSE out.abort # ""

\* the order-1 handler has loaded the single-indirect block into slot 0 and
\* the double-indirect block into slot 1
C26_Witness ==
    \E r \in RecIds :
       /\ img = "indirect"
       /\ completed[r]["ord1"] = <<[offset |-> 0, length |-> pageSize],
                                   [offset |-> pageSize, length |-> pageSize]>>
       /\ ReadU32(mem[r]["ord1"], 0) = 400
       /\ ReadU32(mem[r]["ord1"], pageSize) = 302

(***************************************************************************)
(* The events the file-data handler passes to readData.                    *)
(***************************************************************************)

\* the event starts on a block boundary and its window holds every block of
\* its request
BlockAligned(r, ev) ==
    /\ ev.offset % fs.blockSize = 0
    /\ RequestBlocks(r, ev) * fs.blockSize <= ev.length

\* C27: the file-data handler is inside readData, or has posted
\* complete-load, only for a manage event with offset mod blockSize = 0 and
\* ceil(min(length, fileSize - offset) / blockSize) * blockSize <= length;
\* on any other event it has stopped (AlignmentViolation) before it called
\* readData.
C27_OnlyBlockAlignedEvents ==
    \A r \in RecIds :
       LET h == handler[r]["data"] IN
       /\ h.pc \in {"ready", "lock", "read"} => BlockAligned(r, h.ev)
       /\ \A i \in 1 .. Len(completed[r]["data"]) :
             BlockAligned(r, completed[r]["data"][i])
       /\ (InFlight(r, "data") /\ ~BlockAligned(r, LastAccepted(r, "data"))) =>
             /\ aborted = "AlignmentViolation"
             /\ h.pc = "wait"

\* with blocks of two pages, the handler stopped at an event of one page
C27_Witness ==
    \E r \in RecIds :
       /\ img = "hugeblocks"
       /\ aborted = "AlignmentViolation"
       /\ accepted[r]["data"] = <<[offset |-> 0, length |-> pageSize]>>
       /\ completed[r]["data"] = <<>>
       /\ handler[r]["data"].pc = "wait"

(***************************************************************************)
(* Progress of page-in.                                                    *)
(***************************************************************************)

\* every range a client has touched is resident, or the process has ended
AllFaultsAnswered ==
    \/ aborted # ""
    \/ \A f \in faults : RangeLoaded(mem[f.r]["data"], f.offset, f.length)

\* the locks a handler may wait for: the file-data handler for the caches of
\* indirect blocks, the order-2 handler for the order-1 cache, the order-1
\* handler for none
LocksAreOrdered ==
    \A r \in RecIds :
       /\ handler[r]["data"].pc = "lock" => handler[r]["data"].lockKind \in {"ord1", "ord2"}
       /\ handler[r]["ord2"].pc = "lock" => handler[r]["ord2"].lockKind = "ord1"
       /\ handler[r]["ord1"].pc # "lock"

\* C28: the handlers wait for each other's caches in one direction only,
\* and under a fair dispatcher, kernel and block device every range a client
\* has touched becomes resident unless a fatal error ends the process: as
\* touched ranges are never dropped and resident pages stay resident, this
\* is that again and again all of them are answered.
C28_PageInMakesProgress ==
    /\ []LocksAreOrdered
    /\ []<>AllFaultsAnswered

\* a fault in the double-indirect range was answered through both caches
C28_Witness ==
    \E f \in faults :
       /\ f.offset = 67 * pageSize
       /\ aborted = ""
       /\ RangeLoaded(mem[f.r]["data"], f.offset, f.length)
       /\ completed[f.r]["ord1"] # <<>>
       /\ completed[f.r]["ord2"] # <<>>
       /\ Cardinality(faults) = MaxFaults
       /\ AllFaultsAnswered

(***************************************************************************)
(* Termination of the directory walk.                                      *)
(***************************************************************************)

\* C29: a findEntry call whose lock of the directory has completed ends its
\* walk by returning an entry, by returning absent or by failing with
\* DirectoryCorrupt, whatever record lengths the directory holds.
C29_FindEntryTerminates ==
    \A c \in FindIds :
       (/\ finds[c].pc = "lock"
        /\ RangeLoaded(mem[finds[c].r]["data"], 0, PageRoundUp(inodes[finds[c].r].fileSize)))
       => FindEntryWalk(mem[finds[c].r]["data"], inodes[finds[c].r].fileSize,
                        finds[c].name, WalkStart(finds[c].r)).kind
             \in {"entry", "absent", "abort"}

(***************************************************************************)
(* Unmapped indirect blocks.                                               *)
(***************************************************************************)

\* C30: no handler (file data, order 1, order 2) has a device read of
\* physical block 0 in flight, and no slot of an indirect cache was loaded
\* for a root pointer or a root-table entry that is 0.
C30_NoHandlerReadsBlockZero ==
    \A r \in RecIds :
       /\ \A k \in MemKinds : handler[r][k].pc = "read" => handler[r][k].block # 0
       /\ \A i \in 1 .. Len(completed[r]["ord1"]) :
             RootOfElement(r, completed[r]["ord1"][i].offset
                                 \div Shl(1, fs.blockPagesShift)) # 0
       /\ \A i \in 1 .. Len(completed[r]["ord2"]) :
             DiskBlockU32(inodes[r].fileData.doubleIndirect,
                          completed[r]["ord2"][i].offset
                             \div Shl(1, fs.blockPagesShift)) # 0

(***************************************************************************)
(* The loop of readData.                                                   *)
(***************************************************************************)

\* the request of the file-data handler of record r names only logical
\* blocks below d_range that the block map gives a block number other than 0
RequestMapped(r) ==
    LET h == handler[r]["data"] IN
    \A lb \in h.offset .. h.offset + h.numBlocks - 1 :
       lb < d_range /\ MapBlock(r, lb) # 0

\* the sectors of the file-data object of r whose content the step changes
WrittenCells(r) ==
    {c \in DOMAIN mem'[r]["data"].cells :
        \/ c \notin DOMAIN mem[r]["data"].cells
        \/ mem'[r]["data"].cells[c] # mem[r]["data"].cells[c]}

\* every read in flight is the run of logical blocks that starts at
\* start + progress, has at least one block and ends inside the request
RunsInsideRequest ==
    \A r \in RecIds :
       LET h == handler[r]["data"] IN
       h.pc = "read" =>
          /\ h.index = h.offset + h.progress
          /\ h.count >= 1
          /\ h.progress + h.count <= h.numBlocks
          /\ \A j \in 0 .. h.count - 1 : MapBlock(r, h.index + j) = h.block + j

\* a step of readData: progress moves only when a read has completed, and
\* then by the length of the run; the call returns only with progress equal
\* to num_blocks; what is written lies in the part of the buffer that
\* belongs to the run
ReadDataStep ==
    \A r \in RecIds :
       LET h == handler[r]["data"]
           g == handler'[r]["data"]
           bs == fs.blockSize
       IN /\ (h.pc \in {"lock", "ready"} /\ g.pc \in {"lock", "read"}) =>
                g.progress = h.progress
          /\ (h.pc = "read" /\ g # h) =>
                IF g.pc = "wait"
                THEN h.progress + h.count = h.numBlocks
                ELSE /\ g.progress = h.progress + h.count
                     /\ g.progress < g.numBlocks
                     /\ g.ev = h.ev /\ g.offset = h.offset /\ g.numBlocks = h.numBlocks
          /\ (h.pc = "read" /\ g # h) =>
                WrittenCells(r) \subseteq
                   SectorsOf(h.ev.offset + h.progress * bs, h.count * bs)
          /\ (h.pc = "read" /\ g # h) =>
                \A c \in WrittenCells(r) :
                   c * SectorSize < h.ev.offset + h.numBlocks * bs
          /\ h.pc # "read" => WrittenCells(r) = {}

\* the process was ended by an assert of a manage handler, not by one of
\* readData (a hole, or a block at or behind d_range)
EndedByAnotherHandler == aborted \in {"AlignmentViolation", "AssertionFailed"}

C32_ReturnedEntriesHaveInode ==
    \A c \in FindIds :
       (finds[c].pc = "done" /\ finds[c].result.kind = "entry")
          => finds[c].result.inode >= 1

====
